---- MODULE Spec2Model ----
(***************************************************************************)
(* Verification model of the marking-violations report pipeline            *)
(* (baltabekpro/markirovka): region store, regional aggregation, the       *)
(* download poller, the daily pipeline, the scheduler loop, token          *)
(* acquisition, the email dispatch and the single-instance check.          *)
(*                                                                         *)
(* Each subsystem has its own specification over the shared variables;     *)
(* the variables of the other subsystems stay at their idle values.        *)
(***************************************************************************)
EXTENDS Integers, Sequences, FiniteSets, TLC

VARIABLES
    regions_data,   \* regions.json: region id -> tc_list (a list of outlets)
    region_ret,     \* return value of the last add_tc_to_region call
    region_call,    \* the last add_tc_to_region call: its arguments and the
                    \* regions that listed the outlet before it
    agg_pc,         \* "idle", or "done" once the aggregation has returned
    agg_result,     \* generate_consolidated_report_by_region: the returned dict
    violation_json, \* output/<cert>/violations_<yesterday>.json, per certificate
    pending_file,   \* output/<cert>/pending_tasks.txt, per certificate
    reports_dir,    \* output/<cert>/reports: the files in it
    clock,          \* datetime.now(), in seconds
    dl_pc,          \* download_tasks_for_token: "idle", "monitor", "done"
    dl_cert,        \* download_tasks_for_token: cert_name
    tasks,          \* download_tasks_for_token: the lines read from the file
    task_idx,       \* download_tasks_for_token: position of the for loop
    remaining_tasks, \* download_tasks_for_token: remaining_tasks
    attempt,        \* monitor_and_download: attempt
    fate,           \* per task of the invocation: what the remote answered
                    \* last, what monitor_and_download returned, the file written
    today,          \* the calendar day of datetime.now()
    token_store,    \* true_api_tokens.json: the keys that hold a token
    run_pc,         \* run_daily_process: the statement it is at
    run_tokens,     \* run_daily_process: tokens
    run_idx,        \* run_daily_process: position of the loop over tokens
    run_ret,        \* run_daily_process: how the last run ended
    begun,          \* the stages of the current run that have begun
    finished,       \* the stages of the current run that have finished
    polled,         \* the task ids whose status was queried in the current run
    carried,        \* the task ids pending when the current run started
    last_run,       \* last_run.json: the day of the last written marker
    last_email_run, \* last_email_run.json: the day of the last written marker
    sched_pc,       \* Scheduler.run_continuously: the statement it is at
    running,        \* Scheduler.running
    now,            \* the wall clock of the scheduler, in seconds
    passes,         \* the passes of the while loop of run_continuously
    fired,          \* per trigger: the stages fired since midnight
    last_stage,     \* how the stage fired last ended
    run_tasks,      \* run_daily_process: tasks, as create_tasks_for_token
                    \* returned it
    tok_pc,         \* get_tokens: the statement it is at
    tok_idx,        \* get_tokens: position of the loop over the certificates
    tok_pair,       \* get_tokens: position of the loop over the saved pairs
    tok_uuid,       \* get_tokens: uuid of the challenge drawn last
    tok_tokens,     \* get_tokens: tokens
    tok_ret,        \* how get_tokens ended and the value it returned
    tok_before,     \* true_api_tokens.json as the run found it
    token_file,     \* true_api_tokens.json: tokens and generated_at
    cert_inns,      \* cert_inns.json: the saved pairs of each certificate
    exchanges,      \* the token-exchange requests sent: uuid and key
    attempted,      \* the certificates a challenge was requested for
    issued,         \* the tokens the remote has issued
    mail_pc,        \* send_regional_reports: the statement it is at
    mail_caller,    \* who called process_and_send_reports
    mail_order,     \* regional_reports.items(), in order
    mail_idx,       \* send_regional_reports: position of the loop
    mail_attempts,  \* per region: the send attempts of this call
    mail_sent,      \* per region: whether its message was sent
    mail_success,   \* send_regional_reports: success
    mail_ret,       \* the value send_regional_reports returned
    inst_pc,        \* per caller: the statement of ensure_scheduler_running
                    \* or start_daemon it is at
    inst_op,        \* per caller: which of the two it called
    inst_ret,       \* per caller: the process id returned
    procs,          \* the running processes of scheduler.py that run the loop
    pid_file,       \* scheduler.pid
    ing_runs,       \* process_reports_for_token: the calls made on the day
    ing_first,      \* violations_<date>.json as the first call left it
    listing,        \* os.listdir of the reports directory: the files in the
                    \* order it gives for the directory as it is
    certificates,   \* certificates.json: the list of name and thumbprint
    thumbprints,    \* cert_thumbprints.txt: the list of thumbprints
    win_time,       \* is_time_to_run: task_time, as hour and minute
    win_now,        \* is_time_to_run: datetime.now(), in seconds
    win_ret,        \* is_time_to_run: the value returned
    trig_day        \* the day Scheduler.run_daily_report last got
                    \* run_daily_process back

regionVars == <<regions_data, region_ret, region_call>>
aggVars == <<agg_pc, agg_result>>
diskVars == <<pending_file, reports_dir, clock>>
dlVars == <<dl_pc, dl_cert, tasks, task_idx, remaining_tasks, attempt, fate>>
runVars == <<today, token_store, run_pc, run_tokens, run_idx, run_ret,
             begun, finished, polled, carried, last_run, last_email_run,
             run_tasks>>
schedVars == <<sched_pc, running, now, passes, fired, last_stage>>
tokVars == <<tok_pc, tok_idx, tok_pair, tok_uuid, tok_tokens, tok_ret,
             tok_before, token_file, cert_inns, exchanges, attempted, issued>>
mailVars == <<mail_pc, mail_caller, mail_order, mail_idx, mail_attempts,
              mail_sent, mail_success, mail_ret>>
instVars == <<inst_pc, inst_op, inst_ret, procs, pid_file>>
ingVars == <<ing_runs, ing_first, listing>>
certVars == <<certificates, thumbprints>>
winVars == <<win_time, win_now, win_ret>>
extVars == <<ingVars, certVars, winVars, trig_day>>

vars == <<regions_data, region_ret, region_call, agg_pc, agg_result,
          violation_json, pending_file, reports_dir, clock,
          dl_pc, dl_cert, tasks, task_idx, remaining_tasks, attempt, fate,
          today, token_store, run_pc, run_tokens, run_idx, run_ret,
          begun, finished, polled, carried, last_run, last_email_run,
          sched_pc, running, now, passes, fired, last_stage, run_tasks,
          tokVars, mailVars, instVars, extVars>>

\* the variables outside the region store
notRegion == <<aggVars, violation_json, diskVars, dlVars, runVars, schedVars,
               tokVars, mailVars, instVars, extVars>>

----------------------------------------------------------------------------
(* Bounds of the model *)

NumRegions == 2
NumOutlets == 3
NumGroups == 2
MaxCount == 1
NumCerts == 2
MaxTasks == 2
MaxTime == 1
MaxPasses == 5

RegionIds == 1..NumRegions
\* a region id that regions.json does not hold
MissingRegion == NumRegions + 1
Outlets == 1..NumOutlets
\* product-group codes (an excerpt of the PRODUCT_GROUPS taxonomy)
ProductGroups == 1..NumGroups

----------------------------------------------------------------------------
(* Python list helpers *)

Range(s) == {s[i] : i \in DOMAIN s}

\* x in s
InList(x, s) == \E i \in DOMAIN s : s[i] = x

\* list.remove(x): drops the first occurrence of x
RECURSIVE ListRemove(_, _)
ListRemove(s, x) ==
    IF s = <<>> THEN <<>>
    ELSE IF Head(s) = x THEN Tail(s)
    ELSE <<Head(s)>> \o ListRemove(Tail(s), x)

\* number of occurrences of x in s
Occurrences(s, x) == Cardinality({i \in DOMAIN s : s[i] = x})

\* all duplicate-free lists over S
NoDupSeqs(S) ==
    UNION {{s \in [1..n -> S] : \A i, j \in 1..n : i # j => s[i] # s[j]} :
           n \in 0..Cardinality(S)}

----------------------------------------------------------------------------
(* region_manager.py *)

\* the loop "Remove from other regions" of add_tc_to_region
RemoveFromOthersKeepAll(data, tc_name, region_id) == data

RemoveFromOthers(data, tc_name, region_id) ==
    [r \in DOMAIN data |->
        IF r # region_id /\ InList(tc_name, data[r])
        THEN ListRemove(data[r], tc_name)
        ELSE data[r]]

\* the regions whose tc_list holds the outlet
ListedIn(data, tc) == {r \in DOMAIN data : InList(tc, data[r])}

\* add_tc_to_region(tc_name, region_id); save_ok is whether regions.json
\* could be written by save_regions_data
add_tc_to_region(tc_name, region_id, save_ok) ==
    \/ /\ region_id \notin DOMAIN regions_data
       /\ region_ret' = "False"
       /\ UNCHANGED regions_data
       /\ region_call' = [tc_name |-> tc_name, region_id |-> region_id,
                          listed_in |-> ListedIn(regions_data, tc_name)]
    \/ /\ region_id \in DOMAIN regions_data
       /\ InList(tc_name, regions_data[region_id])
       /\ region_ret' = "True"
       /\ UNCHANGED regions_data
       /\ region_call' = [tc_name |-> tc_name, region_id |-> region_id,
                          listed_in |-> ListedIn(regions_data, tc_name)]
    \/ /\ region_id \in DOMAIN regions_data
       /\ ~InList(tc_name, regions_data[region_id])
       /\ save_ok
       /\ regions_data' =
            RemoveFromOthers(
                [regions_data EXCEPT ![region_id] = Append(@, tc_name)],
                tc_name, region_id)
       /\ region_ret' = "True"
       /\ region_call' = [tc_name |-> tc_name, region_id |-> region_id,
                          listed_in |-> ListedIn(regions_data, tc_name)]
    \/ /\ region_id \in DOMAIN regions_data
       /\ ~InList(tc_name, regions_data[region_id])
       /\ ~save_ok
       /\ region_ret' = "False"
       /\ UNCHANGED regions_data
       /\ region_call' = [tc_name |-> tc_name, region_id |-> region_id,
                          listed_in |-> ListedIn(regions_data, tc_name)]

\* number of places an outlet is listed in the whole store
Listings(data, tc) ==
    LET RECURSIVE Sum(_)
        Sum(R) == IF R = {} THEN 0
                  ELSE LET r == CHOOSE x \in R : TRUE
                       IN Occurrences(data[r], tc) + Sum(R \ {r})
    IN Sum(DOMAIN data)

\* a store in which no outlet is listed twice
NoOutletListedTwice(data) == \A tc \in Outlets : Listings(data, tc) <= 1

RegionStores ==
    {d \in [RegionIds -> NoDupSeqs(Outlets)] : NoOutletListedTwice(d)}

NoCall == [tc_name |-> 0, region_id |-> 0, listed_in |-> {}]

RegionInit ==
    /\ regions_data \in RegionStores
    /\ region_ret = "none"
    /\ region_call = NoCall

RegionNext ==
    \E tc \in Outlets, r \in RegionIds \cup {MissingRegion}, ok \in BOOLEAN :
        add_tc_to_region(tc, r, ok) /\ UNCHANGED notRegion

----------------------------------------------------------------------------
(* send_daily_report.py: generate_consolidated_report_by_region *)

\* the bucket of certificates that no tc_list holds ("Undefined")
UndefinedRegion == 0

\* a count read from violations_<date>.json: an integer, or a value that
\* int() rejects
CountValues ==
    [kind : {"int"}, v : 0..MaxCount] \cup {[kind |-> "bad", v |-> 0]}

\* int(count) raises ValueError/TypeError
IntRaises(count) == count.kind # "int"
\* int(count)
IntValue(count) == count.v

\* the "violations" objects a report file can hold (group -> count); the
\* ingestor writes a file only when the map is not empty
ViolationMaps ==
    UNION {[G -> CountValues] : G \in (SUBSET ProductGroups) \ {{}}}

\* the certificate directories under output/ that hold a report
ReportCerts == {1, 2}

SetMax(S) == CHOOSE x \in S : \A y \in S : y <= x
SetMin(S) == CHOOSE x \in S : \A y \in S : x <= y

\* cert_to_region.get(cert_name, "Undefined"): cert_to_region is filled region
\* by region in file order, a later region overwriting an earlier one
CertToRegion(data, cert) ==
    IF ListedIn(data, cert) = {} THEN UndefinedRegion
    ELSE SetMax(ListedIn(data, cert))

EmptyBucket ==
    [certificates |-> <<>>, cert_reports |-> <<>>,
     violations |-> <<>>, total |-> 0]

\* defaultdict(int)[pg]
GetCount(violations, pg) ==
    IF pg \in DOMAIN violations THEN violations[pg] ELSE 0

\* the body of the inner loop: one (product_group, count) item
AddCountTotalOnly(bucket, pg, count) ==
    IF IntRaises(count) THEN bucket
    ELSE [bucket EXCEPT
            !.violations = (pg :> (GetCount(@, pg) + IntValue(count))) @@ @,
            !.total = IntValue(count)]

AddCount(bucket, pg, count) ==
    IF IntRaises(count) THEN bucket
    ELSE [bucket EXCEPT
            !.violations = (pg :> (GetCount(@, pg) + IntValue(count))) @@ @,
            !.total = @ + IntValue(count)]

\* the inner loop over report['data']['violations'].items()
RECURSIVE AddCounts(_, _, _)
AddCounts(bucket, viol, groups) ==
    IF groups = {} THEN bucket
    ELSE LET pg == SetMin(groups)
         IN AddCounts(AddCount(bucket, pg, viol[pg]), viol, groups \ {pg})

\* the body of the outer loop: one report
AddReportDropUnmapped(rr, data, cert, viol) ==
    LET region == CertToRegion(data, cert)
        b0 == IF region \in DOMAIN rr THEN rr[region] ELSE EmptyBucket
        b1 == [b0 EXCEPT !.cert_reports = (cert :> viol) @@ @,
                         !.certificates = Append(@, cert)]
    IN IF region = UndefinedRegion THEN rr
       ELSE (region :> AddCounts(b1, viol, DOMAIN viol)) @@ rr

AddReport(rr, data, cert, viol) ==
    LET region == CertToRegion(data, cert)
        b0 == IF region \in DOMAIN rr THEN rr[region] ELSE EmptyBucket
        b1 == [b0 EXCEPT !.cert_reports = (cert :> viol) @@ @,
                         !.certificates = Append(@, cert)]
    IN (region :> AddCounts(b1, viol, DOMAIN viol)) @@ rr

\* the outer loop over all_reports, a list of certificates in listdir order
RECURSIVE Consolidate(_, _, _, _)
Consolidate(rr, data, files, order) ==
    IF order = <<>> THEN rr
    ELSE Consolidate(AddReport(rr, data, Head(order), files[Head(order)]),
                     data, files, Tail(order))

\* the conversion of the defaultdicts to the returned dict
ToResult(rr) ==
    [region \in DOMAIN rr |->
        [certificates |-> rr[region].certificates,
         violations |-> rr[region].violations,
         total |-> rr[region].total]]

\* os.listdir orders
ListdirOrders(S) == {s \in NoDupSeqs(S) : Len(s) = Cardinality(S)}

generate_consolidated_report_by_region ==
    \E order \in ListdirOrders(DOMAIN violation_json) :
        /\ agg_result' =
              ToResult(Consolidate(<<>>, regions_data, violation_json, order))
        /\ agg_pc' = "done"

AggIdle ==
    /\ agg_pc = "idle"
    /\ agg_result = <<>>

RegionIdle ==
    /\ regions_data = [r \in RegionIds |-> <<>>]
    /\ region_ret = "none"
    /\ region_call = NoCall

AggInit ==
    /\ regions_data \in {d \in RegionStores :
                            \A r \in RegionIds : \A i \in DOMAIN d[r] :
                                /\ d[r][i] \in ReportCerts
                                /\ i > 1 => d[r][i - 1] < d[r][i]}
    /\ region_ret = "none"
    /\ region_call = NoCall
    /\ violation_json \in
          UNION {[C -> ViolationMaps] : C \in SUBSET ReportCerts}
    /\ agg_pc = "idle"
    /\ agg_result = <<>>

AggNext ==
    /\ generate_consolidated_report_by_region
    /\ UNCHANGED <<regionVars, violation_json, diskVars, dlVars,
                   runVars, schedVars, tokVars, mailVars,
                   instVars, extVars>>

----------------------------------------------------------------------------
(* get_report.py: ReportDownloader; main.py: download_tasks_for_token *)

Certs == 1..NumCerts

\* monitor_and_download: max_attempts
max_attempts == 60

\* the days on which run_daily_process is called
RunDays == {1, 2}

\* the ids the remote gives to tasks
TaskIds == 1..(Cardinality(RunDays) * NumCerts * NumGroups)

\* a line "task_id,group_code" of pending_tasks.txt
TaskLines == [task_id : TaskIds, group_code : ProductGroups]

NoPendingFile == [exists |-> FALSE, lines |-> <<>>]
PendingFile(lines) == [exists |-> TRUE, lines |-> lines]

\* what get_results_list and the reading of its result give in one pass of
\* the loop of monitor_and_download: no data (the query failed, or the list
\* is empty), a status, or a body that is not the expected object
PollResponses == {"no_data", "PROCESSING", "SUCCESS", "FAILED", "malformed"}

\* the answers of GET /dispenser/results/{id}/file: a status code, or 0 for
\* a request that raised
FileResponses == {0, 200, 204, 403, 500}

\* date_info of the file name: empty without task info
DateInfos == {"", "start_to_end"}

\* the number of data rows of a downloaded file
RowCounts == 0..MaxCount

\* the seconds that pass between two file names
Ticks == 0..MaxTime

NoFileName == [group |-> 0, date_info |-> "", timestamp |-> 0 - 1]

\* f"violations_group{product_group_code}_{date_info}_{timestamp}.csv"
FileName(group_code, date_info, timestamp) ==
    [group |-> group_code, date_info |-> date_info, timestamp |-> timestamp]

\* the name matches violations_group<group_code>_*
MatchesGroup(name, group_code) == name # NoFileName /\ name.group = group_code

\* open(filepath, 'wb') and write: a file of that name is replaced
WriteFile(dir, name, rows) ==
    {f \in dir : f.name # name} \cup {[name |-> name, rows |-> rows]}

FileNames(dir) == {f.name : f \in dir}

\* download_result_file: the value returned and whether the file is written;
\* raise_for_status raises for a status of 400 and above
DownloadResultFileStrict(status) ==
    IF status = 204 THEN [ret |-> TRUE, written |-> FALSE]
    ELSE IF status = 0 \/ status >= 400 THEN [ret |-> FALSE, written |-> FALSE]
    ELSE [ret |-> TRUE, written |-> TRUE]

DownloadResultFileNoWrite(status) ==
    IF status = 403 THEN [ret |-> TRUE, written |-> FALSE]
    ELSE IF status = 204 THEN [ret |-> TRUE, written |-> FALSE]
    ELSE IF status = 0 \/ status >= 400 THEN [ret |-> FALSE, written |-> FALSE]
    ELSE [ret |-> TRUE, written |-> FALSE]

DownloadResultFile(status) ==
    IF status = 403 THEN [ret |-> TRUE, written |-> FALSE]
    ELSE IF status = 204 THEN [ret |-> TRUE, written |-> FALSE]
    ELSE IF status = 0 \/ status >= 400 THEN [ret |-> FALSE, written |-> FALSE]
    ELSE [ret |-> TRUE, written |-> TRUE]

\* the for loop body of download_tasks_for_token after monitor_and_download:
\* how is "True", "False" or "raised"
RemainingAfterDropRaised(remaining, task, how) ==
    IF how = "False" THEN Append(remaining, task) ELSE remaining

RemainingAfterDropFalse(remaining, task, how) ==
    IF how = "raised" THEN Append(remaining, task) ELSE remaining

RemainingAfter(remaining, task, how) ==
    IF how = "True" THEN remaining ELSE Append(remaining, task)

\* "Update pending tasks file"
UpdatePendingFile(read, remaining) ==
    IF remaining # <<>> THEN PendingFile(remaining) ELSE NoPendingFile

\* what the remote answered last for a task: the status, and for SUCCESS the
\* answer of the file request
Obs(status, http) == [status |-> status, http |-> http]

NoFate == [obs |-> Obs("pending", 0), ret |-> "none", file |-> NoFileName]

\* download_tasks_for_token is called: by run_daily_process for the
\* certificate of its loop, or on its own
DlCalled(c) ==
    \/ run_pc = "standalone"
    \/ run_pc = "download" /\ c = run_tokens[run_idx]

\* download_tasks_for_token up to the for loop
DlStart(c) ==
    /\ dl_pc = "idle"
    /\ DlCalled(c)
    /\ dl_cert' = c
    /\ \/ /\ ~pending_file[c].exists
          /\ dl_pc' = "done"
          /\ tasks' = <<>>
          /\ fate' = <<>>
       \/ /\ pending_file[c].exists
          /\ dl_pc' = "monitor"
          /\ tasks' = pending_file[c].lines
          /\ fate' = [i \in DOMAIN pending_file[c].lines |-> NoFate]
    /\ remaining_tasks' = <<>>
    /\ task_idx' = 1
    /\ attempt' = 0
    /\ begun' = begun \cup {<<"download", c>>}
    /\ UNCHANGED <<diskVars, violation_json, regionVars, aggVars,
                   schedVars, today, token_store, run_pc,
                   run_tokens, run_idx, run_ret, finished,
                   polled, carried, last_run, last_email_run,
                   run_tasks, tokVars, mailVars, instVars, extVars>>

\* the end of one pass of the for loop: monitor_and_download returned or raised
TaskDone(obs, how, file) ==
    /\ fate' = [fate EXCEPT ![task_idx] =
                    [obs |-> obs, ret |-> how, file |-> file]]
    /\ remaining_tasks' = RemainingAfter(remaining_tasks, tasks[task_idx], how)
    /\ task_idx' = task_idx + 1
    /\ attempt' = 0
    /\ UNCHANGED <<dl_pc, dl_cert, tasks, pending_file, run_tasks,
                   tokVars, mailVars, instVars, extVars>>

\* what the download step meets: the status of the file request, the
\* date_info of the task info, the data rows of the file, and the seconds
\* that have passed since the last file was named
NoAnswer == [status |-> 0, date_info |-> "", tick |-> 0, rows |-> 0]

FileAnswers ==
    {a \in [status : FileResponses, date_info : DateInfos, tick : Ticks,
            rows : RowCounts] :
        \* what is not read is not varied
        a.status # 200 => a.date_info = "" /\ a.tick = 0 /\ a.rows = 0}

\* the inputs of one pass of the loop: the download step runs for SUCCESS
PollInputs ==
    {in \in [resp : PollResponses, answer : FileAnswers] :
        in.resp # "SUCCESS" => in.answer = NoAnswer}

\* one pass of the while loop of monitor_and_download
MonitorStep(resp, answer) ==
    /\ dl_pc = "monitor"
    /\ task_idx <= Len(tasks)
    /\ attempt < max_attempts
    /\ polled' = polled \cup {tasks[task_idx].task_id}
    /\ UNCHANGED <<violation_json, regionVars, aggVars, schedVars,
                   today, token_store, run_pc, run_tokens,
                   run_idx, run_ret, begun, finished, carried,
                   last_run, last_email_run, run_tasks,
                   tokVars, mailVars, instVars, extVars>>
    /\ \/ /\ resp \in {"no_data", "PROCESSING"}
          /\ attempt' = attempt + 1
          /\ UNCHANGED <<dl_pc, dl_cert, tasks, task_idx, remaining_tasks,
                         fate, diskVars>>
       \/ /\ resp = "FAILED"
          /\ TaskDone(Obs("FAILED", 0), "False", NoFileName)
          /\ UNCHANGED <<reports_dir, clock>>
       \/ /\ resp = "malformed"
          /\ TaskDone(Obs("malformed", 0), "raised", NoFileName)
          /\ UNCHANGED <<reports_dir, clock>>
       \/ /\ resp = "SUCCESS"
          /\ answer.tick = 0 \/ clock + answer.tick <= MaxTime
          /\ LET r == DownloadResultFile(answer.status)
                 name == FileName(tasks[task_idx].group_code,
                                  answer.date_info, clock + answer.tick)
             IN /\ clock' = IF r.written THEN clock + answer.tick ELSE clock
                /\ reports_dir' =
                      IF r.written
                      THEN [reports_dir EXCEPT ![dl_cert] =
                               WriteFile(@, name, answer.rows)]
                      ELSE reports_dir
                /\ TaskDone(Obs("SUCCESS", answer.status),
                            IF r.ret THEN "True" ELSE "False",
                            IF r.written THEN name ELSE NoFileName)

\* "Maximum attempts reached"
MonitorGiveUp ==
    /\ dl_pc = "monitor"
    /\ task_idx <= Len(tasks)
    /\ attempt = max_attempts
    /\ TaskDone(Obs("gave_up", 0), "False", NoFileName)
    /\ UNCHANGED <<reports_dir, clock, violation_json, regionVars,
                   aggVars, schedVars, runVars, tokVars,
                   mailVars, instVars, extVars>>

\* download_tasks_for_token after the for loop
DlFinish ==
    /\ dl_pc = "monitor"
    /\ task_idx > Len(tasks)
    /\ pending_file' =
          [pending_file EXCEPT ![dl_cert] =
              UpdatePendingFile(tasks, remaining_tasks)]
    /\ dl_pc' = "done"
    /\ UNCHANGED <<dl_cert, tasks, task_idx, remaining_tasks,
                   attempt, fate, reports_dir, clock,
                   violation_json, regionVars, aggVars,
                   schedVars, runVars, tokVars, mailVars,
                   instVars, extVars>>

\* the pending files task creation leaves: one line per created task
PendingFiles ==
    {NoPendingFile} \cup
    {PendingFile(l) : l \in
        {s \in UNION {[1..n -> TaskLines] : n \in 1..MaxTasks} :
            \A i \in DOMAIN s : s[i].task_id = i}}

DlIdle ==
    /\ dl_pc = "idle"
    /\ dl_cert = 0
    /\ tasks = <<>>
    /\ task_idx = 1
    /\ remaining_tasks = <<>>
    /\ attempt = 0
    /\ fate = <<>>

DiskIdle ==
    /\ pending_file = [c \in Certs |-> NoPendingFile]
    /\ reports_dir = [c \in Certs |-> {}]
    /\ clock = 0

----------------------------------------------------------------------------
(* main.py: run_daily_process and the stages it calls *)

\* the elements of a set of numbers as a list in ascending order
RECURSIVE SortedSeq(_)
SortedSeq(S) ==
    IF S = {} THEN <<>>
    ELSE <<SetMin(S)>> \o SortedSeq(S \ {SetMin(S)})

\* get_auth_data: returns the challenge, or leaves through sys.exit(1)
get_auth_data(reachable) == IF reachable THEN "return" ELSE "SystemExit"

\* certificates.json: the configured certificates
Certificates == {1, 2}

\* products.txt as load_product_groups reads it: the configured groups
Products == {1}

\* what one certificate of the loop of get_tokens meets: the auth endpoint
\* unreachable, no token (signing or exchange failed), or a token
TokenOutcomes == {"auth_unreachable", "no_token", "token"}

\* get_tokens: how it ends and the tokens it saved; sys.exit in
\* get_auth_data leaves the loop before save_tokens
get_tokens(outcomes) ==
    IF \E c \in DOMAIN outcomes :
          get_auth_data(outcomes[c] # "auth_unreachable") = "SystemExit"
    THEN [ends |-> "SystemExit", tokens |-> {}]
    ELSE [ends |-> "return",
          tokens |-> {c \in DOMAIN outcomes : outcomes[c] = "token"}]

\* an "except Exception" clause: what it lets through
ExceptException(ends) == IF ends = "Exception" THEN "return" ELSE ends

\* refresh_daily_tokens: "True", "False", or the exit it lets through
refresh_daily_tokens(outcomes) ==
    LET r == get_tokens(outcomes)
    IN IF ExceptException(r.ends) # "return" THEN r.ends
       ELSE IF r.tokens = {} THEN "False" ELSE "True"

\* save_tokens: the new keys are merged into the store
save_tokens(store, tokens) == store \cup tokens

\* the id the remote gives to the task created on a day for a certificate
\* and a product group: ids are unique
TaskIdOf(day, c, g) == ((day - 1) * NumCerts + (c - 1)) * NumGroups + g

\* the lines create_tasks_for_token collects: one per created task
CreatedLines(day, c, groups) ==
    [i \in 1..Cardinality(groups) |->
        [task_id |-> TaskIdOf(day, c, SortedSeq(groups)[i]),
         group_code |-> SortedSeq(groups)[i]]]

\* "Save task IDs for this certificate"
SavePendingAppend(file, lines) ==
    IF lines # <<>> THEN PendingFile(file.lines \o lines) ELSE file

SavePending(file, lines) ==
    IF lines # <<>> THEN PendingFile(lines) ELSE file

\* the task ids of all pending files
PendingIds(files) ==
    UNION {{files[c].lines[i].task_id : i \in DOMAIN files[c].lines} :
           c \in DOMAIN files}

\* the order of the statements of run_daily_process from the loop over the
\* certificates on; more: the loop has further certificates
StageAfterSkipDownload(stage, more) ==
    IF stage = "create" THEN "ingest"
    ELSE IF stage = "download" THEN "ingest"
    ELSE IF stage = "ingest" THEN (IF more THEN "create" ELSE "send")
    ELSE IF stage = "send" THEN "marker"
    ELSE "idle"

StageAfter(stage, more) ==
    IF stage = "create" THEN "download"
    ELSE IF stage = "download" THEN "ingest"
    ELSE IF stage = "ingest" THEN (IF more THEN "create" ELSE "send")
    ELSE IF stage = "send" THEN "marker"
    ELSE "idle"

\* the run is at a stage: the stage begins and ends in one step
StageDone(stage, c) ==
    /\ begun' = begun \cup {<<stage, c>>}
    /\ finished' = finished \cup {<<stage, c>>}

\* run_daily_process is called on the next day
RunStart ==
    /\ run_pc = "idle"
    /\ today + 1 \in RunDays
    /\ today' = today + 1
    /\ run_pc' = "refresh1"
    /\ run_ret' = "none"
    /\ run_tokens' = <<>>
    /\ run_idx' = 1
    /\ begun' = {}
    /\ finished' = {}
    /\ polled' = {}
    /\ carried' = PendingIds(pending_file)
    /\ run_tasks' = <<>>
    \* the reports of the new "yesterday" are not written yet
    /\ violation_json' = <<>>
    \* a day has passed
    /\ clock' = clock + 1
    /\ UNCHANGED <<token_store, last_run, last_email_run,
                   pending_file, reports_dir, dlVars,
                   regionVars, aggVars, schedVars,
                   tokVars, mailVars, instVars, extVars>>

\* "First refresh tokens", and "Retrying once"
RunRefresh(outcomes) ==
    /\ run_pc \in {"refresh1", "refresh2"}
    /\ LET r == refresh_daily_tokens(outcomes)
       IN \/ /\ r = "True"
             /\ token_store' = save_tokens(token_store, get_tokens(outcomes).tokens)
             /\ run_pc' = "load_tokens"
             /\ StageDone("tokens", 0)
             /\ UNCHANGED run_ret
          \/ /\ r = "False"
             /\ run_pc = "refresh1"
             /\ run_pc' = "refresh2"
             /\ begun' = begun \cup {<<"tokens", 0>>}
             /\ UNCHANGED <<token_store, run_ret, finished>>
          \/ /\ r = "False"
             /\ run_pc = "refresh2"
             /\ run_pc' = "idle"
             /\ run_ret' = "False"
             /\ StageDone("tokens", 0)
             /\ UNCHANGED token_store
          \/ /\ r = "SystemExit"
             /\ run_pc' = "exited"
             /\ run_ret' = "SystemExit"
             /\ begun' = begun \cup {<<"tokens", 0>>}
             /\ UNCHANGED <<token_store, finished>>
    /\ UNCHANGED <<today, run_tokens, run_idx, polled, carried,
                   last_run, last_email_run, violation_json,
                   diskVars, dlVars, regionVars, aggVars,
                   schedVars, run_tasks, tokVars, mailVars,
                   instVars, extVars>>

\* load_tokens: the items of the tokens dict, in the order of the file
load_tokens(store) == ListdirOrders(store)

\* load_tokens, and the start of the loop over the certificates
RunLoadTokens ==
    /\ run_pc = "load_tokens"
    /\ run_tokens' \in load_tokens(token_store)
    /\ run_idx' = 1
    /\ \/ /\ token_store = {}
          /\ run_pc' = "idle"
          /\ run_ret' = "False"
       \/ /\ token_store # {}
          /\ run_pc' = "create"
          /\ UNCHANGED run_ret
    /\ UNCHANGED <<today, token_store, begun, finished, polled,
                   carried, last_run, last_email_run,
                   violation_json, diskVars, dlVars,
                   regionVars, aggVars, schedVars, run_tasks,
                   tokVars, mailVars, instVars, extVars>>

\* create_tasks_for_token for the certificate of the loop; created are the
\* product groups whose task creation gave an id
RunCreate(created) ==
    /\ run_pc = "create"
    /\ LET c == run_tokens[run_idx]
       IN /\ pending_file' =
                [pending_file EXCEPT ![c] =
                    SavePending(@, CreatedLines(today, c, created))]
          /\ run_tasks' = CreatedLines(today, c, created)
          /\ StageDone("create", c)
    /\ run_pc' = StageAfter("create", FALSE)
    /\ UNCHANGED <<today, token_store, run_tokens, run_idx, run_ret,
                   polled, carried, last_run, last_email_run,
                   violation_json, reports_dir, clock, dlVars,
                   regionVars, aggVars, schedVars,
                   tokVars, mailVars, instVars, extVars>>

\* download_tasks_for_token has returned to run_daily_process
RunDownloaded ==
    /\ run_pc = "download"
    /\ dl_pc = "done"
    /\ dl_pc' = "idle"
    /\ finished' = finished \cup {<<"download", dl_cert>>}
    /\ run_pc' = StageAfter("download", FALSE)
    /\ UNCHANGED <<dl_cert, tasks, task_idx, remaining_tasks,
                   attempt, fate, today, token_store,
                   run_tokens, run_idx, run_ret, begun,
                   polled, carried, last_run, last_email_run,
                   violation_json, diskVars, regionVars,
                   aggVars, schedVars, run_tasks, tokVars,
                   mailVars, instVars, extVars>>

\* the groups that have a file in the reports directory
GroupsOf(dir) == {f.name.group : f \in dir}

\* process_reports_for_token: violations[product_name] = violation_count, file
\* by file in listdir order; last[g] is the file of group g listed last
IngestedViolations(dir, last) ==
    [g \in GroupsOf(dir) |-> [kind |-> "int", v |-> last[g].rows]]

\* "Save consolidated JSON"
SaveViolationsAccumulate(json, c, violations) ==
    IF DOMAIN violations # {}
    THEN (c :> [g \in DOMAIN violations |->
                  [kind |-> "int",
                   v |-> violations[g].v +
                         (IF c \in DOMAIN json /\ g \in DOMAIN json[c]
                          THEN json[c][g].v ELSE 0)]]) @@ json
    ELSE json

SaveViolations(json, c, violations) ==
    IF DOMAIN violations # {} THEN (c :> violations) @@ json ELSE json

\* process_reports_for_token for the certificate of the loop
RunIngest ==
    /\ run_pc = "ingest"
    /\ LET c == run_tokens[run_idx]
       IN /\ \E last \in [GroupsOf(reports_dir[c]) -> reports_dir[c]] :
                /\ \A g \in DOMAIN last : last[g].name.group = g
                /\ violation_json' =
                      SaveViolations(violation_json, c,
                          IngestedViolations(reports_dir[c], last))
          /\ StageDone("ingest", c)
    /\ run_idx' = run_idx + 1
    /\ run_pc' = StageAfter("ingest", run_idx < Len(run_tokens))
    /\ UNCHANGED <<today, token_store, run_tokens, run_ret, polled,
                   carried, last_run, last_email_run,
                   diskVars, dlVars, regionVars, aggVars,
                   schedVars, run_tasks, tokVars, mailVars,
                   instVars, extVars>>

\* process_and_send_reports up to the loop over the regional reports: the
\* email configuration is loaded and the reports are consolidated
RunAggregate(config_ok) ==
    /\ run_pc = "send"
    /\ \/ /\ ~config_ok
          /\ run_pc' = "marker"
          /\ UNCHANGED <<aggVars, begun, finished>>
       \/ /\ config_ok
          /\ generate_consolidated_report_by_region
          /\ StageDone("aggregate", 0)
          /\ run_pc' = IF DOMAIN violation_json = {} THEN "marker" ELSE "email"
    /\ UNCHANGED <<today, token_store, run_tokens, run_idx, run_ret,
                   polled, carried, last_run, last_email_run,
                   violation_json, diskVars, dlVars,
                   regionVars, schedVars, run_tasks, tokVars,
                   mailVars, instVars, extVars>>

\* the loop of send_regional_reports over the regional reports, and the
\* writing of last_email_run.json
RunEmail ==
    /\ run_pc = "email"
    /\ StageDone("email", 0)
    /\ last_email_run' = today
    /\ run_pc' = "marker"
    /\ UNCHANGED <<today, token_store, run_tokens, run_idx, run_ret,
                   polled, carried, last_run, violation_json,
                   diskVars, dlVars, regionVars, aggVars,
                   schedVars, run_tasks, tokVars, mailVars,
                   instVars, extVars>>

\* "Update last run time"
RunMarker ==
    /\ run_pc = "marker"
    /\ last_run' = today
    /\ run_ret' = "True"
    /\ run_pc' = StageAfter("marker", FALSE)
    /\ UNCHANGED <<today, token_store, run_tokens, run_idx, begun,
                   finished, polled, carried, last_email_run,
                   violation_json, diskVars, dlVars,
                   regionVars, aggVars, schedVars, run_tasks,
                   tokVars, mailVars, instVars, extVars>>

\* no run of run_daily_process has begun; pc is "idle", or "standalone" when
\* download_tasks_for_token is called on its own
RunAt(pc) ==
    /\ today = 0
    /\ token_store = {}
    /\ run_pc = pc
    /\ run_tokens = <<>>
    /\ run_idx = 1
    /\ run_ret = "none"
    /\ begun = {}
    /\ finished = {}
    /\ polled = {}
    /\ carried = {}
    /\ last_run = 0
    /\ last_email_run = 0
    /\ run_tasks = <<>>

----------------------------------------------------------------------------
(* scheduler.py: Scheduler *)

\* the time of day is counted in seconds
SecondsPerMinute == 60
SecondsPerHour == 3600
SecondsPerDay == 86400

\* load_config: the default configuration, times as <<hour, minute>>
daily_report_time == <<4, 0>>
check_interval == 60
token_refresh_time == <<3, 0>>
email_time == <<20, 4>>

Triggers == {"daily", "token", "email"}

TaskTime(trigger) ==
    IF trigger = "daily" THEN daily_report_time
    ELSE IF trigger = "token" THEN token_refresh_time
    ELSE email_time

\* datetime.now() of the wall clock t: its time of day, hour and minute
TimeOfDay(t) == t % SecondsPerDay
HourOf(t) == TimeOfDay(t) \div SecondsPerHour
MinuteOf(t) == (TimeOfDay(t) % SecondsPerHour) \div SecondsPerMinute
DayOf(t) == t \div SecondsPerDay

\* is_time_to_run with datetime.now() = t
is_time_to_run(task_time, t) ==
    LET hour == task_time[1]
        minute == task_time[2]
        time_diff == TimeOfDay(t) - (hour * SecondsPerHour + minute * SecondsPerMinute)
    IN IF HourOf(t) > hour \/ (HourOf(t) = hour /\ MinuteOf(t) > minute + 2)
       THEN FALSE
       ELSE 0 <= time_diff /\ time_diff <= 120

\* how long a stage runs, in seconds
Durations == {0, 10, 45, 130}

\* how the stage of a trigger ends when the certificates of get_tokens meet
\* outcomes: each stage body is wrapped in try / except Exception
run_daily_process_ends(outcomes) ==
    ExceptException(
        IF refresh_daily_tokens(outcomes) = "SystemExit" THEN "SystemExit"
        ELSE "return")

StageEnds(trigger, outcomes, raises) ==
    IF trigger = "daily"
    THEN ExceptException(run_daily_process_ends(outcomes))
    ELSE IF trigger = "token"
    THEN ExceptException(get_tokens(outcomes).ends)
    ELSE ExceptException(IF raises THEN "Exception" ELSE "return")

\* the order of the checks of check_and_run_tasks
NextCheck(trigger) ==
    IF trigger = "daily" THEN "token"
    ELSE IF trigger = "token" THEN "email"
    ELSE "sleep"

NoStage == [trigger |-> "none", ends |-> "none"]

\* the stages fired on the day of the wall clock t
FiredOn(f, old, t) ==
    IF DayOf(t) = DayOf(old) THEN f ELSE [x \in Triggers |-> 0]

\* run_continuously is called
RunContinuously ==
    /\ sched_pc = "stopped"
    /\ ~running
    /\ running' = TRUE
    /\ sched_pc' = "daily"
    /\ UNCHANGED <<now, passes, fired, last_stage, regionVars,
                   aggVars, violation_json, diskVars, dlVars,
                   runVars, tokVars, mailVars, instVars, extVars>>

\* one check of check_and_run_tasks whose trigger is not due
CheckSkip(trigger) ==
    /\ sched_pc = trigger
    /\ ~is_time_to_run(TaskTime(trigger), now)
    /\ sched_pc' = NextCheck(trigger)
    /\ UNCHANGED <<running, now, passes, fired, last_stage,
                   regionVars, aggVars, violation_json,
                   diskVars, dlVars, runVars, tokVars,
                   mailVars, instVars, extVars>>

\* one check of check_and_run_tasks whose trigger is due: the stage runs for
\* d seconds
CheckFire(trigger, d, outcomes, raises) ==
    /\ sched_pc = trigger
    /\ is_time_to_run(TaskTime(trigger), now)
    /\ now' = now + d
    /\ fired' = [fired EXCEPT ![trigger] = @ + 1]
    /\ last_stage' =
          [trigger |-> trigger, ends |-> StageEnds(trigger, outcomes, raises)]
    \* what the stage lets through ends run_continuously: self.running is
    \* set to False only for KeyboardInterrupt and Exception
    /\ sched_pc' =
          IF StageEnds(trigger, outcomes, raises) = "return"
          THEN NextCheck(trigger) ELSE "dead"
    /\ UNCHANGED <<running, passes, regionVars, aggVars,
                   violation_json, diskVars, dlVars, runVars,
                   tokVars, mailVars, instVars, extVars>>

\* time.sleep(check_interval), and the next pass of the while loop
Sleep ==
    /\ sched_pc = "sleep"
    /\ running
    /\ passes < MaxPasses
    /\ passes' = passes + 1
    /\ now' = now + check_interval
    /\ fired' = FiredOn(fired, now, now + check_interval)
    /\ sched_pc' = "daily"
    /\ UNCHANGED <<running, last_stage, regionVars, aggVars,
                   violation_json, diskVars, dlVars, runVars,
                   tokVars, mailVars, instVars, extVars>>

\* the second of the day at hour:minute:second
At(hour, minute, second) ==
    hour * SecondsPerHour + minute * SecondsPerMinute + second

\* the times of the first day at which run_continuously may be called
StartTimes == {At(2, 59, 30), At(3, 59, 50), At(20, 3, 45), At(23, 59, 30)}

SchedIdle ==
    /\ sched_pc = "stopped"
    /\ running = FALSE
    /\ now = 0
    /\ passes = 0
    /\ fired = [x \in Triggers |-> 0]
    /\ last_stage = NoStage

----------------------------------------------------------------------------
(* get_tokens.py: get_tokens and save_tokens, statement by statement *)

\* cert_inns.json: the lists of saved outlet-identity pairs of a certificate,
\* each pair named by its outlet
PairLists == {<<>>, <<1>>, <<1, 2>>}

\* the key of a token: f"{name} - {tc}", or the plain name (tc = 0)
TokenKey(name, tc) == [name |-> name, tc |-> tc]

TokenKeys == {TokenKey(name, tc) : name \in Certificates, tc \in {0, 1, 2}}

\* get_token: the status it returns; any status but these two is handled as
\* "api_error" is
TokenStatuses == {"success", "require_inn", "api_error"}

\* input() at the prompt for an outlet and its identity: a pair, nothing, or
\* EOFError where no console is attached
Prompts == {"pair", "blank", "EOFError"}

\* the outlet typed at the prompt
PromptedOutlet == 1

\* true_api_tokens.json
TokenFile(tokens, generated_at) ==
    [tokens |-> tokens, generated_at |-> generated_at]

\* existing_tokens.update(tokens)
DictUpdate(existing, tokens) ==
    [k \in DOMAIN existing \cup DOMAIN tokens |->
        IF k \in DOMAIN tokens THEN tokens[k] ELSE existing[k]]

\* save_tokens: the file it writes at time at
MergeTokens(file, tokens, at) ==
    TokenFile(DictUpdate(file.tokens, tokens), at)

\* the end of get_tokens: "Save all tokens in a single file", and the file is
\* left alone without tokens
SaveAllTokens(file, tokens, at) ==
    IF DOMAIN tokens # {} THEN MergeTokens(file, tokens, at) ELSE file

\* the value get_tokens leaves with
NoReturn == [ends |-> "none", tokens |-> <<>>]
Returned(ends, tokens) == [ends |-> ends, tokens |-> tokens]

\* the certificates of the loop, in the order of certificates.json
CertificateList == SortedSeq(Certificates)

\* get_tokens is called
TokStart ==
    /\ tok_pc = "idle"
    /\ tok_pc' = "cert"
    /\ tok_idx' = 1
    /\ tok_tokens' = <<>>
    /\ tok_before' = token_file
    /\ UNCHANGED <<tok_pair, tok_uuid, tok_ret, token_file, cert_inns,
                   exchanges, attempted, issued, regionVars, aggVars,
                   violation_json, diskVars, dlVars, runVars, schedVars,
                   mailVars, instVars, extVars>>

\* get_auth_data for the certificate of the loop: a fresh challenge, or
\* sys.exit(1)
TokChallenge(reachable) ==
    /\ tok_pc = "cert"
    /\ tok_idx <= Len(CertificateList)
    /\ attempted' = attempted \cup {CertificateList[tok_idx]}
    /\ \/ /\ get_auth_data(reachable) = "return"
          /\ tok_uuid' = tok_uuid + 1
          /\ tok_pc' = "sign"
          /\ UNCHANGED tok_ret
       \/ /\ get_auth_data(reachable) = "SystemExit"
          /\ tok_pc' = "exited"
          /\ tok_ret' = Returned("SystemExit", <<>>)
          /\ UNCHANGED tok_uuid
    /\ UNCHANGED <<tok_idx, tok_pair, tok_tokens, tok_before, token_file, cert_inns,
                   exchanges, issued, regionVars, aggVars, violation_json,
                   diskVars, dlVars, runVars, schedVars, mailVars, instVars, extVars>>

\* sign_data_with_cryptcp and read_signature_file: without a signature the
\* loop continues with the next certificate
TokSign(signed) ==
    /\ tok_pc = "sign"
    /\ \/ /\ ~signed
          /\ tok_pc' = "cert"
          /\ tok_idx' = tok_idx + 1
          /\ UNCHANGED tok_pair
       \/ /\ signed
          /\ cert_inns[CertificateList[tok_idx]] # <<>>
          /\ tok_pc' = "pairs"
          /\ tok_pair' = 1
          /\ UNCHANGED tok_idx
       \/ /\ signed
          /\ cert_inns[CertificateList[tok_idx]] = <<>>
          /\ tok_pc' = "single"
          /\ UNCHANGED <<tok_idx, tok_pair>>
    /\ UNCHANGED <<tok_uuid, tok_tokens, tok_ret, tok_before, token_file, cert_inns,
                   exchanges, attempted, issued, regionVars, aggVars,
                   violation_json, diskVars, dlVars, runVars, schedVars,
                   mailVars, instVars, extVars>>

\* the token of an exchange that gave one is stored in tokens under the key
StoreToken(tokens, key, serial) == (key :> serial) @@ tokens

\* one pass of the loop over the saved pairs: get_token with the uuid and the
\* signature of the certificate
TokExchangePair(status) ==
    /\ tok_pc = "pairs"
    /\ LET name == CertificateList[tok_idx]
           pairs == cert_inns[name]
           tc == pairs[tok_pair]
       IN /\ exchanges' = exchanges \cup
                {[uuid |-> tok_uuid, key |-> TokenKey(name, tc)]}
          /\ \/ /\ status = "success"
                /\ tok_tokens' =
                      StoreToken(tok_tokens, TokenKey(name, tc), issued + 1)
                /\ issued' = issued + 1
             \/ /\ status # "success"
                /\ UNCHANGED <<tok_tokens, issued>>
          /\ \/ /\ tok_pair < Len(pairs)
                /\ tok_pair' = tok_pair + 1
                /\ UNCHANGED <<tok_pc, tok_idx>>
             \/ /\ tok_pair = Len(pairs)
                /\ tok_pc' = "cert"
                /\ tok_idx' = tok_idx + 1
                /\ UNCHANGED tok_pair
    /\ UNCHANGED <<tok_uuid, tok_ret, tok_before, token_file, cert_inns, attempted,
                   regionVars, aggVars, violation_json, diskVars, dlVars,
                   runVars, schedVars, mailVars, instVars, extVars>>

\* the branch without saved pairs: get_token without an identity, and for
\* "require_inn" the prompt and a second get_token with the typed identity
TokExchangeSingle(status, prompt, status2) ==
    /\ tok_pc = "single"
    /\ LET name == CertificateList[tok_idx]
           typed == TokenKey(name, PromptedOutlet)
       IN \/ /\ status = "success"
             /\ exchanges' = exchanges \cup
                   {[uuid |-> tok_uuid, key |-> TokenKey(name, 0)]}
             /\ tok_tokens' = StoreToken(tok_tokens, TokenKey(name, 0), issued + 1)
             /\ issued' = issued + 1
             /\ tok_pc' = "cert"
             /\ tok_idx' = tok_idx + 1
             /\ UNCHANGED <<tok_ret, cert_inns>>
          \/ /\ status = "api_error" \/ (status = "require_inn" /\ prompt = "blank")
             /\ exchanges' = exchanges \cup
                   {[uuid |-> tok_uuid, key |-> TokenKey(name, 0)]}
             /\ tok_pc' = "cert"
             /\ tok_idx' = tok_idx + 1
             /\ UNCHANGED <<tok_tokens, issued, tok_ret, cert_inns>>
          \/ /\ status = "require_inn" /\ prompt = "EOFError"
             \* "except Exception": get_tokens returns tokens, nothing saved
             /\ exchanges' = exchanges \cup
                   {[uuid |-> tok_uuid, key |-> TokenKey(name, 0)]}
             /\ tok_pc' = "returned"
             /\ tok_ret' = Returned("return", tok_tokens)
             /\ UNCHANGED <<tok_tokens, issued, tok_idx, cert_inns>>
          \/ /\ status = "require_inn" /\ prompt = "pair"
             /\ exchanges' = exchanges \cup
                   {[uuid |-> tok_uuid, key |-> TokenKey(name, 0)],
                    [uuid |-> tok_uuid, key |-> typed]}
             /\ cert_inns' = [cert_inns EXCEPT ![name] = <<PromptedOutlet>>]
             /\ \/ /\ status2 = "success"
                   /\ tok_tokens' = StoreToken(tok_tokens, typed, issued + 1)
                   /\ issued' = issued + 1
                \/ /\ status2 # "success"
                   /\ UNCHANGED <<tok_tokens, issued>>
             /\ tok_pc' = "cert"
             /\ tok_idx' = tok_idx + 1
             /\ UNCHANGED tok_ret
    /\ UNCHANGED <<tok_pair, tok_uuid, tok_before, token_file, attempted, regionVars,
                   aggVars, violation_json, diskVars, dlVars, runVars,
                   schedVars, mailVars, instVars, extVars>>

\* after the loop: save_tokens when tokens is not empty, and return tokens
TokSave ==
    /\ tok_pc = "cert"
    /\ tok_idx > Len(CertificateList)
    /\ token_file' = SaveAllTokens(token_file, tok_tokens, clock + 1)
    /\ clock' = clock + 1
    /\ tok_pc' = "returned"
    /\ tok_ret' = Returned("return", tok_tokens)
    /\ UNCHANGED <<tok_idx, tok_pair, tok_uuid, tok_tokens, tok_before,
                   cert_inns,
                   exchanges, attempted, issued, regionVars, aggVars,
                   violation_json, pending_file, reports_dir, dlVars,
                   runVars, schedVars, mailVars, instVars, extVars>>

\* the token stores a run can find: tokens of earlier runs under some keys
TokenFiles ==
    {TokenFile([k \in K |-> 0], 0) : K \in SUBSET TokenKeys}

TokIdle ==
    /\ tok_pc = "idle"
    /\ tok_idx = 1
    /\ tok_pair = 1
    /\ tok_uuid = 0
    /\ tok_tokens = <<>>
    /\ tok_ret = NoReturn
    /\ token_file = TokenFile(<<>>, 0)
    /\ tok_before = TokenFile(<<>>, 0)
    /\ cert_inns = [name \in Certificates |-> <<>>]
    /\ exchanges = {}
    /\ attempted = {}
    /\ issued = 0

----------------------------------------------------------------------------
(* send_daily_report.py: send_regional_reports, statement by statement *)

\* who calls process_and_send_reports: run_daily_process, or the email
\* trigger of the scheduler (Scheduler.send_email_reports)
MailCallers == {"daily", "scheduler"}

\* the loop over regional_reports.items(): the position after one pass
NextMailIdxBreakOnFailure(idx, sent, n) == IF sent THEN idx + 1 ELSE n + 1

NextMailIdx(idx, sent, n) == idx + 1

\* "success = False" in the except clause of the loop
AccumulateSuccess(success, sent) == success /\ sent

\* "Update last email run time": the day last_email_run.json holds afterwards
EmailMarkerKept(marker, day) == marker

EmailMarker(marker, day) == day

\* send_regional_reports is called: load_email_config
MailStart(caller, config_ok) ==
    /\ mail_pc = "idle"
    /\ mail_caller' = caller
    /\ \/ /\ ~config_ok
          /\ mail_pc' = "returned"
          /\ mail_ret' = "False"
       \/ /\ config_ok
          /\ mail_pc' = "aggregate"
          /\ UNCHANGED mail_ret
    /\ UNCHANGED <<mail_order, mail_idx, mail_attempts, mail_sent,
                   mail_success, regionVars, aggVars, violation_json,
                   diskVars, dlVars, runVars, schedVars, tokVars, instVars, extVars>>

\* generate_consolidated_report_by_region, and "No reports to send"
MailAggregate ==
    /\ mail_pc = "aggregate"
    /\ generate_consolidated_report_by_region
    /\ \/ /\ DOMAIN agg_result' = {}
          /\ mail_pc' = "returned"
          /\ mail_ret' = "False"
          /\ UNCHANGED <<mail_order, mail_idx, mail_attempts, mail_sent,
                         mail_success>>
       \/ /\ DOMAIN agg_result' # {}
          \* the items of regional_reports, in the order of the dict
          /\ mail_order' \in ListdirOrders(DOMAIN agg_result')
          /\ mail_idx' = 1
          /\ mail_attempts' = [region \in DOMAIN agg_result' |-> 0]
          /\ mail_sent' = [region \in DOMAIN agg_result' |-> FALSE]
          /\ mail_success' = TRUE
          /\ mail_pc' = "loop"
          /\ UNCHANGED mail_ret
    /\ UNCHANGED <<mail_caller, regionVars, violation_json, diskVars, dlVars,
                   runVars, schedVars, tokVars, instVars, extVars>>

\* one pass of the loop: the message of the region is built and sent, or the
\* except clause is entered
MailSend(sent) ==
    /\ mail_pc = "loop"
    /\ mail_idx <= Len(mail_order)
    /\ LET region == mail_order[mail_idx]
       IN /\ mail_attempts' = [mail_attempts EXCEPT ![region] = @ + 1]
          /\ mail_sent' = [mail_sent EXCEPT ![region] = sent]
    /\ mail_success' = AccumulateSuccess(mail_success, sent)
    /\ mail_idx' = NextMailIdx(mail_idx, sent, Len(mail_order))
    /\ UNCHANGED <<mail_pc, mail_caller, mail_order, mail_ret, regionVars,
                   aggVars, violation_json, diskVars, dlVars, runVars,
                   schedVars, tokVars, instVars, extVars>>

\* after the loop: last_email_run.json is written and success is returned
MailFinish ==
    /\ mail_pc = "loop"
    /\ mail_idx > Len(mail_order)
    /\ last_email_run' = EmailMarker(last_email_run, today)
    /\ mail_ret' = IF mail_success THEN "True" ELSE "False"
    /\ mail_pc' = "returned"
    /\ UNCHANGED <<mail_caller, mail_order, mail_idx, mail_attempts,
                   mail_sent, mail_success, today, token_store, run_pc,
                   run_tokens, run_idx, run_ret, begun, finished, polled,
                   carried, last_run, run_tasks, regionVars, aggVars,
                   violation_json, diskVars, dlVars, schedVars, tokVars,
                   instVars, extVars>>

\* Scheduler.send_email_reports after process_and_send_reports returned:
\* update_last_email_run_time
MailSchedulerMark ==
    /\ mail_pc = "returned"
    /\ mail_caller = "scheduler"
    /\ last_email_run' = EmailMarker(last_email_run, today)
    /\ mail_pc' = "marked"
    /\ UNCHANGED <<mail_caller, mail_order, mail_idx, mail_attempts,
                   mail_sent, mail_success, mail_ret, today, token_store,
                   run_pc, run_tokens, run_idx, run_ret, begun, finished,
                   polled, carried, last_run, run_tasks, regionVars, aggVars,
                   violation_json, diskVars, dlVars, schedVars, tokVars,
                   instVars, extVars>>

\* the region stores of a dispatch: every region lists at most one of the
\* certificates with a report
MailStores == [RegionIds -> {<<>>} \cup {<<c>> : c \in ReportCerts}]

\* the reports of a dispatch: the message does not depend on the counts, so
\* every report holds one violation of the first product group
MailReports ==
    UNION {[C -> {[g \in {1} |-> [kind |-> "int", v |-> 1]]}] :
              C \in SUBSET ReportCerts}

MailIdle ==
    /\ mail_pc = "idle"
    /\ mail_caller = "none"
    /\ mail_order = <<>>
    /\ mail_idx = 1
    /\ mail_attempts = <<>>
    /\ mail_sent = <<>>
    /\ mail_success = TRUE
    /\ mail_ret = "none"

----------------------------------------------------------------------------
(* scheduler.py: check_if_running, ensure_scheduler_running, start_daemon *)

\* the processes that call ensure_scheduler_running or start_daemon; the
\* process id of a caller is its number
Callers == {1, 2, 3}

\* the process id of the process a caller starts with Popen
SpawnedPid(p) == p + Cardinality(Callers)

\* a running process of scheduler.py and the argument of its command line
Process(pid, arg) == [pid |-> pid, arg |-> arg]

\* the process ids check_if_running can return: the processes whose command
\* line holds "--scheduler"
Matching(ps) == {q.pid : q \in {x \in ps : x.arg = "--scheduler"}}

\* no process id: None
NoPid == 0

NoCaller == [c \in Callers |-> NoPid]

\* the first statements of ensure_scheduler_running (op = "ensure") and of
\* start_daemon (op = "daemon"): check_if_running, and the return of the
\* process id found
InstCheck(p, op) ==
    /\ inst_pc[p] = "idle"
    /\ inst_op' = [inst_op EXCEPT ![p] = op]
    /\ \/ /\ Matching(procs) = {}
          /\ inst_pc' = [inst_pc EXCEPT ![p] = "checked"]
          /\ inst_ret' = [inst_ret EXCEPT ![p] = NoPid]
       \/ \E pid \in Matching(procs) :
             /\ inst_pc' = [inst_pc EXCEPT ![p] = "done"]
             /\ inst_ret' = [inst_ret EXCEPT ![p] = pid]
    /\ UNCHANGED <<procs, pid_file, regionVars, aggVars, violation_json,
                   diskVars, dlVars, runVars, schedVars, tokVars, mailVars, extVars>>

\* ensure_scheduler_running: Popen([python_exe, script_path, "--scheduler"])
InstSpawn(p) ==
    /\ inst_pc[p] = "checked"
    /\ inst_op[p] = "ensure"
    /\ procs' = procs \cup {Process(SpawnedPid(p), "--scheduler")}
    /\ inst_pc' = [inst_pc EXCEPT ![p] = "spawned"]
    /\ UNCHANGED <<inst_op, inst_ret, pid_file, regionVars, aggVars,
                   violation_json, diskVars, dlVars, runVars, schedVars,
                   tokVars, mailVars, extVars>>

\* ensure_scheduler_running: "Double-check the process is really running"
InstVerify(p) ==
    /\ inst_pc[p] = "spawned"
    /\ inst_ret' = [inst_ret EXCEPT ![p] =
                       IF Matching(procs) # {} THEN SpawnedPid(p) ELSE NoPid]
    /\ inst_pc' = [inst_pc EXCEPT ![p] = "done"]
    /\ UNCHANGED <<inst_op, procs, pid_file, regionVars, aggVars,
                   violation_json, diskVars, dlVars, runVars, schedVars,
                   tokVars, mailVars, extVars>>

\* start_daemon: write_pid_file and run_continuously in the calling process,
\* whose command line holds "--daemon"
InstDaemonRun(p) ==
    /\ inst_pc[p] = "checked"
    /\ inst_op[p] = "daemon"
    /\ pid_file' = p
    /\ procs' = procs \cup {Process(p, "--daemon")}
    /\ inst_pc' = [inst_pc EXCEPT ![p] = "looping"]
    /\ UNCHANGED <<inst_op, inst_ret, regionVars, aggVars, violation_json,
                   diskVars, dlVars, runVars, schedVars, tokVars, mailVars, extVars>>

InstIdle ==
    /\ inst_pc = [c \in Callers |-> "idle"]
    /\ inst_op = [c \in Callers |-> "none"]
    /\ inst_ret = NoCaller
    /\ procs = {}
    /\ pid_file = NoPid

----------------------------------------------------------------------------
(* region_manager.py and gui/data_manager.py: the operations on regions.json *)

\* the region ids an operation can name: the stored ones and a further one
RegionCodes == RegionIds \cup {MissingRegion}

\* regions_data.get(region_id, {}).get('tc_list', [])
TcListOf(data, region_id) ==
    IF region_id \in DOMAIN data THEN data[region_id] ELSE <<>>

\* an operation other than add_tc_to_region returned ret
RegionReturned(ret) ==
    /\ region_ret' = ret
    /\ region_call' = NoCall

\* add_region(region_id, region_name, emails): the region is added, or its
\* name and emails are replaced and its tc_list kept
add_region(region_id) ==
    /\ regions_data' = (region_id :> TcListOf(regions_data, region_id))
                          @@ regions_data
    /\ RegionReturned("True")

\* remove_tc_from_region(tc_name, region_id)
remove_tc_from_region(tc_name, region_id) ==
    \/ /\ region_id \notin DOMAIN regions_data
       /\ UNCHANGED regions_data
       /\ RegionReturned("False")
    \/ /\ region_id \in DOMAIN regions_data
       /\ regions_data' =
             IF InList(tc_name, regions_data[region_id])
             THEN [regions_data EXCEPT ![region_id] = ListRemove(@, tc_name)]
             ELSE regions_data
       /\ RegionReturned("True")

\* delete_region(region_id)
delete_region(region_id) ==
    \/ /\ region_id \notin DOMAIN regions_data
       /\ UNCHANGED regions_data
       /\ RegionReturned("False")
    \/ /\ region_id \in DOMAIN regions_data
       /\ regions_data' =
             [r \in DOMAIN regions_data \ {region_id} |-> regions_data[r]]
       /\ RegionReturned("True")

\* the tc_list argument of DataManager.save_region: None or an empty list,
\* or the list of the dialog (lists of one outlet)
SavedTcLists == {<<>>} \cup {<<tc>> : tc \in Outlets}

\* DataManager.save_region(code, name, emails, tc_list):
\* "tc_list": tc_list or data.get(code, {}).get("tc_list", [])
save_region(code, tc_list) ==
    /\ regions_data' =
          (code :> (IF tc_list # <<>> THEN tc_list
                    ELSE TcListOf(regions_data, code))) @@ regions_data
    /\ RegionReturned("True")

\* the region-management operations, each as one step
OpAddTc ==
    \E tc \in Outlets, r \in RegionCodes, ok \in BOOLEAN :
        add_tc_to_region(tc, r, ok) /\ UNCHANGED notRegion
OpAddRegion == \E r \in RegionCodes : add_region(r) /\ UNCHANGED notRegion
OpRemoveTc ==
    \E tc \in Outlets, r \in RegionCodes :
        remove_tc_from_region(tc, r) /\ UNCHANGED notRegion
OpDeleteRegion ==
    \E r \in RegionCodes : delete_region(r) /\ UNCHANGED notRegion
OpSaveRegion ==
    \E r \in RegionCodes, l \in SavedTcLists :
        save_region(r, l) /\ UNCHANGED notRegion

----------------------------------------------------------------------------
(* token_manager.py and gui/data_manager.py: certificates.json and
   cert_thumbprints.txt *)

\* the entries a store holds at most
MaxEntries == 3

\* the names and thumbprints typed by the user; 0 is the empty input (None)
CertNames == {1, 2}
Thumbs == {1, 2}
NoName == 0
NoThumb == 0

\* an entry of certificates.json
Entry(name, thumbprint) == [name |-> name, thumbprint |-> thumbprint]

\* the variables outside the certificate store
notCerts ==
    <<regionVars, aggVars, violation_json, diskVars, dlVars, runVars,
      schedVars, tokVars, mailVars, instVars, ingVars, winVars, trig_day>>

\* cert_map[thumbprint]: the index of the entry with the thumbprint, the last
\* one when several entries have it; 0 without such an entry
CertIndex(certs, thumbprint) ==
    IF \E i \in DOMAIN certs : certs[i].thumbprint = thumbprint
    THEN SetMax({i \in DOMAIN certs : certs[i].thumbprint = thumbprint})
    ELSE 0

\* list.pop(index)
ListPop(s, index) ==
    [i \in 1..(Len(s) - 1) |-> IF i < index THEN s[i] ELSE s[i + 1]]

\* the first entry with the name; 0 without such an entry
FirstNamed(certs, name) ==
    IF \E i \in DOMAIN certs : certs[i].name = name
    THEN SetMin({i \in DOMAIN certs : certs[i].name = name})
    ELSE 0

\* token_manager.add_certificate with the typed name and thumbprint
TmAddCertificate(name, thumbprint) ==
    /\ thumbprint # NoThumb
    /\ ~InList(thumbprint, thumbprints)
    /\ Len(thumbprints) < MaxEntries
    /\ Len(certificates) < MaxEntries
    /\ thumbprints' = Append(thumbprints, thumbprint)
    /\ certificates' =
          IF name # NoName
          THEN Append(certificates, Entry(name, thumbprint))
          ELSE certificates
    /\ UNCHANGED notCerts

\* token_manager.edit_certificate, choice 1: the name of the certificate at
\* the chosen position of cert_thumbprints.txt
TmEditName(index, new_name) ==
    /\ index \in DOMAIN thumbprints
    /\ new_name # NoName
    /\ LET cert_index == CertIndex(certificates, thumbprints[index])
       IN IF cert_index # 0
          THEN certificates' =
                  [certificates EXCEPT ![cert_index].name = new_name]
          ELSE /\ Len(certificates) < MaxEntries
               /\ certificates' =
                     Append(certificates, Entry(new_name, thumbprints[index]))
    /\ UNCHANGED <<thumbprints, notCerts>>

\* token_manager.edit_certificate, choice 2: the thumbprint
TmEditThumbprint(index, new_thumbprint) ==
    /\ index \in DOMAIN thumbprints
    /\ new_thumbprint # NoThumb
    /\ ~InList(new_thumbprint, thumbprints)
    /\ thumbprints' = [thumbprints EXCEPT ![index] = new_thumbprint]
    /\ LET cert_index == CertIndex(certificates, thumbprints[index])
       IN certificates' =
             IF cert_index # 0
             THEN [certificates EXCEPT
                      ![cert_index].thumbprint = new_thumbprint]
             ELSE certificates
    /\ UNCHANGED notCerts

\* token_manager.delete_certificate, confirmed
TmDeleteCertificate(index) ==
    /\ index \in DOMAIN thumbprints
    /\ thumbprints' = ListPop(thumbprints, index)
    /\ LET cert_index == CertIndex(certificates, thumbprints[index])
       IN certificates' =
             IF cert_index # 0 THEN ListPop(certificates, cert_index)
             ELSE certificates
    /\ UNCHANGED notCerts

\* DataManager.add_certificate(name, thumbprint)
DmAddCertificate(name, thumbprint) ==
    /\ CertIndex(certificates, thumbprint) = 0
    /\ Len(certificates) < MaxEntries
    /\ Len(thumbprints) < MaxEntries
    /\ certificates' = Append(certificates, Entry(name, thumbprint))
    /\ thumbprints' =
          IF ~InList(thumbprint, thumbprints)
          THEN Append(thumbprints, thumbprint)
          ELSE thumbprints
    /\ UNCHANGED notCerts

\* DataManager.update_certificate(old_name, new_name, new_thumb)
DmUpdateCertificate(old_name, new_name, new_thumb) ==
    /\ FirstNamed(certificates, old_name) # 0
    /\ LET found == FirstNamed(certificates, old_name)
       IN certificates' =
             [certificates EXCEPT
                 ![found] = Entry(new_name,
                                  IF new_thumb # NoThumb THEN new_thumb
                                  ELSE @.thumbprint)]
    /\ UNCHANGED <<thumbprints, notCerts>>

\* DataManager.delete_certificate(name)
DmDeleteCertificate(name) ==
    /\ FirstNamed(certificates, name) # 0
    /\ certificates' = SelectSeq(certificates, LAMBDA c : c.name # name)
    /\ UNCHANGED <<thumbprints, notCerts>>

----------------------------------------------------------------------------
(* main.py: process_reports_for_token called again on the same files *)

\* the calls of process_reports_for_token on one day
MaxRuns == 2

\* the certificate whose reports are processed
IngestCert == 1

\* the names of the files of a reports directory: for each group a file of
\* an earlier download and a file of a later one
IngestNames ==
    {FileName(g, "start_to_end", t) : g \in {1, 2}, t \in {0, 1}}

\* the reports directories: files of these names, each with its data rows
IngestDirs ==
    {d \in SUBSET [name : IngestNames, rows : {0, 1}] :
        \A f1 \in d : \A f2 \in d : f1.name = f2.name => f1 = f2}

\* violations_<date>.json before the first call: none, or the file an
\* earlier call of the day wrote from other files
StaleReports ==
    {<<>>, (IngestCert :> [g \in {2} |-> [kind |-> "int", v |-> 1]])}

\* the file of each group that os.listdir gives last: its count is the one
\* violations[product_name] keeps
LastListed(order) ==
    [g \in {order[i].name.group : i \in DOMAIN order} |->
        order[SetMax({i \in DOMAIN order : order[i].name.group = g})]]

\* process_reports_for_token(cert_name) on the directory as it is
Ingest ==
    /\ ing_runs < MaxRuns
    /\ violation_json' =
          SaveViolations(violation_json, IngestCert,
              IngestedViolations(reports_dir[IngestCert],
                                 LastListed(listing)))
    /\ ing_runs' = ing_runs + 1
    /\ ing_first' = IF ing_runs = 0 THEN violation_json' ELSE ing_first
    /\ UNCHANGED <<listing, regionVars, aggVars, diskVars, dlVars, runVars,
                   schedVars, tokVars, mailVars, instVars, certVars,
                   winVars, trig_day>>

----------------------------------------------------------------------------
(* scheduler.py: is_time_to_run at any second around the configured time *)

\* the configured times: the defaults, and times in the last two minutes of
\* an hour and of the day
TaskTimes ==
    {daily_report_time, token_refresh_time, email_time,
     <<12, 58>>, <<12, 59>>, <<23, 58>>, <<23, 59>>}

\* the seconds between the configured time and the check
CheckOffsets == (0 - 2)..182

\* one call of is_time_to_run(task_time), offset seconds from the time
WindowCheck(offset) ==
    /\ win_now' = At(win_time[1], win_time[2], 0) + offset
    /\ win_ret' = IF is_time_to_run(win_time, win_now')
                  THEN "True" ELSE "False"
    /\ UNCHANGED <<win_time, regionVars, aggVars, violation_json, diskVars,
                   dlVars, runVars, schedVars, tokVars, mailVars, instVars,
                   ingVars, certVars, trig_day>>

----------------------------------------------------------------------------
(* scheduler.py: Scheduler.run_daily_report around run_daily_process *)

\* the daily-report trigger fires: run_daily_report calls run_daily_process
TrigDailyReport ==
    /\ trig_day = today
    /\ RunStart

\* run_daily_process has returned to run_daily_report: "Update last run
\* time", whatever the result
TrigUpdateLastRun ==
    /\ run_pc = "idle"
    /\ run_ret \in {"True", "False"}
    /\ trig_day # today
    /\ last_run' = today
    /\ trig_day' = today
    /\ UNCHANGED <<today, token_store, run_pc, run_tokens, run_idx,
                   run_ret, begun, finished, polled, carried,
                   last_email_run, run_tasks, regionVars, aggVars,
                   violation_json, diskVars, dlVars, schedVars, tokVars,
                   mailVars, instVars, ingVars, certVars, winVars>>

----------------------------------------------------------------------------
(* main.py: download_tasks_for_token killed while it polls or downloads *)

\* pending_tasks.txt after a kill inside the for loop: no statement of the
\* loop writes it
FileAfterKillRewritten(file, remaining) == UpdatePendingFile(file.lines, remaining)

FileAfterKill(file, remaining) == file

\* the process is killed while monitor_and_download polls or downloads
DlKill ==
    /\ dl_pc = "monitor"
    /\ task_idx <= Len(tasks)
    /\ dl_pc' = "killed"
    /\ pending_file' =
          [pending_file EXCEPT ![dl_cert] = FileAfterKill(@, remaining_tasks)]
    /\ UNCHANGED <<dl_cert, tasks, task_idx, remaining_tasks, attempt,
                   fate, reports_dir, clock, violation_json, regionVars,
                   aggVars, schedVars, runVars, tokVars, mailVars, instVars,
                   extVars>>

\* the process is started again: what it finds is what the disk holds
DlRestart ==
    /\ dl_pc = "killed"
    /\ dl_pc' = "restarted"
    /\ UNCHANGED <<dl_cert, tasks, task_idx, remaining_tasks, attempt,
                   fate, diskVars, violation_json, regionVars, aggVars,
                   schedVars, runVars, tokVars, mailVars, instVars, extVars>>

\* none of the above is running
ExtIdle ==
    /\ ing_runs = 0
    /\ ing_first = <<>>
    /\ listing = <<>>
    /\ certificates = <<>>
    /\ thumbprints = <<>>
    /\ win_time = <<0, 0>>
    /\ win_now = 0
    /\ win_ret = "none"
    /\ trig_day = 0

----------------------------------------------------------------------------
(* Specifications *)

NoReports == violation_json = <<>>

\* get_tokens, send_regional_reports and the instance check are not running
OthersIdle == TokIdle /\ MailIdle /\ InstIdle /\ ExtIdle

\* any sequence of add_tc_to_region calls on a region store
InitRegion ==
    /\ RegionInit /\ AggIdle /\ NoReports /\ DiskIdle /\ DlIdle
    /\ RunAt("idle") /\ SchedIdle /\ OthersIdle
NextRegion == RegionNext
SpecRegion == InitRegion /\ [][NextRegion]_vars

\* generate_consolidated_report_by_region on any region store and reports
InitAgg ==
    /\ AggInit /\ DiskIdle /\ DlIdle /\ RunAt("idle") /\ SchedIdle
    /\ OthersIdle
NextAgg == AggNext
SpecAgg == InitAgg /\ [][NextAgg]_vars

\* one call of download_tasks_for_token for each certificate, the first
\* certificate with any pending file; the poller writes the body without
\* reading it, so the rows of the body are not varied
PollerInputs == {in \in PollInputs : in.answer.rows = 0}

InitPoll ==
    /\ \E f \in PendingFiles :
          pending_file = [c \in Certs |-> IF c = 1 THEN f ELSE NoPendingFile]
    /\ reports_dir = [c \in Certs |-> {}]
    /\ clock = 0
    /\ DlIdle /\ RegionIdle /\ AggIdle /\ NoReports
    /\ RunAt("standalone") /\ SchedIdle /\ OthersIdle
NextPoll ==
    \/ \E c \in Certs : DlStart(c)
    \/ \E in \in PollerInputs : MonitorStep(in.resp, in.answer)
    \/ MonitorGiveUp
    \/ DlFinish
SpecPoll == InitPoll /\ [][NextPoll]_vars

\* run_daily_process day after day, with the configured certificates and
\* product groups; a status query gives no data, PROCESSING or SUCCESS, and
\* the file request answers 200
DailyInputs ==
    {in \in PollInputs :
        /\ in.resp \in {"no_data", "PROCESSING", "SUCCESS"}
        /\ in.resp = "SUCCESS" =>
              /\ in.answer.status = 200
              /\ in.answer.date_info = "start_to_end"
              /\ in.answer.tick = 0}

InitDaily ==
    /\ RegionIdle /\ AggIdle /\ NoReports /\ DiskIdle /\ DlIdle
    /\ RunAt("idle") /\ SchedIdle /\ OthersIdle
NextDaily ==
    \/ RunStart
    \/ \E outcomes \in [Certificates -> TokenOutcomes] : RunRefresh(outcomes)
    \/ RunLoadTokens
    \/ \E created \in SUBSET Products : RunCreate(created)
    \/ \E c \in Certs : DlStart(c)
    \/ \E in \in DailyInputs : MonitorStep(in.resp, in.answer)
    \/ MonitorGiveUp
    \/ DlFinish
    \/ RunDownloaded
    \/ RunIngest
    \/ \E config_ok \in BOOLEAN : RunAggregate(config_ok)
    \/ RunEmail
    \/ RunMarker
SpecDaily == InitDaily /\ [][NextDaily]_vars

\* the scheduler loop, started at some second of the first day
InitSched ==
    /\ RegionIdle /\ AggIdle /\ NoReports /\ DiskIdle /\ DlIdle
    /\ RunAt("idle") /\ OthersIdle
    /\ sched_pc = "stopped"
    /\ running = FALSE
    /\ now \in StartTimes
    /\ passes = 0
    /\ fired = [x \in Triggers |-> 0]
    /\ last_stage = NoStage
NextSched ==
    \/ RunContinuously
    \/ \E trigger \in Triggers : CheckSkip(trigger)
    \/ \E trigger \in Triggers, d \in Durations,
          outcomes \in [Certificates -> TokenOutcomes], raises \in BOOLEAN :
          CheckFire(trigger, d, outcomes, raises)
    \/ Sleep
SpecSched == InitSched /\ [][NextSched]_vars


\* one call of get_tokens on any token store and any saved pairs
InitTokens ==
    /\ RegionIdle /\ AggIdle /\ NoReports /\ DiskIdle /\ DlIdle
    /\ RunAt("idle") /\ SchedIdle /\ MailIdle /\ InstIdle /\ ExtIdle
    /\ tok_pc = "idle"
    /\ tok_idx = 1
    /\ tok_pair = 1
    /\ tok_uuid = 0
    /\ tok_tokens = <<>>
    /\ tok_ret = NoReturn
    /\ token_file \in TokenFiles
    /\ tok_before = token_file
    /\ cert_inns \in [Certificates -> PairLists]
    /\ exchanges = {}
    /\ attempted = {}
    /\ issued = 0
NextTokens ==
    \/ TokStart
    \/ \E reachable \in BOOLEAN : TokChallenge(reachable)
    \/ \E signed \in BOOLEAN : TokSign(signed)
    \/ \E status \in TokenStatuses : TokExchangePair(status)
    \/ \E status \in TokenStatuses, prompt \in Prompts,
          status2 \in TokenStatuses :
          TokExchangeSingle(status, prompt, status2)
    \/ TokSave
SpecTokens == InitTokens /\ [][NextTokens]_vars

\* one call of process_and_send_reports on a region store and reports, on a
\* day after the day of the marker in last_email_run.json
InitEmail ==
    /\ regions_data \in MailStores
    /\ region_ret = "none"
    /\ region_call = NoCall
    /\ violation_json \in MailReports
    /\ AggIdle /\ DiskIdle /\ DlIdle /\ SchedIdle /\ TokIdle /\ InstIdle
    /\ MailIdle /\ ExtIdle
    /\ today = 1
    /\ token_store = {}
    /\ run_pc = "idle"
    /\ run_tokens = <<>>
    /\ run_idx = 1
    /\ run_ret = "none"
    /\ begun = {}
    /\ finished = {}
    /\ polled = {}
    /\ carried = {}
    /\ last_run = 0
    /\ last_email_run = 0
    /\ run_tasks = <<>>
NextEmail ==
    \/ \E caller \in MailCallers, config_ok \in BOOLEAN :
          MailStart(caller, config_ok)
    \/ MailAggregate
    \/ \E sent \in BOOLEAN : MailSend(sent)
    \/ MailFinish
    \/ MailSchedulerMark
SpecEmail == InitEmail /\ [][NextEmail]_vars

\* ensure_scheduler_running and start_daemon called by several processes
InitInstance ==
    /\ RegionIdle /\ AggIdle /\ NoReports /\ DiskIdle /\ DlIdle
    /\ RunAt("idle") /\ SchedIdle /\ TokIdle /\ MailIdle /\ InstIdle
    /\ ExtIdle
NextInstance ==
    \/ \E p \in Callers, op \in {"ensure", "daemon"} : InstCheck(p, op)
    \/ \E p \in Callers : InstSpawn(p)
    \/ \E p \in Callers : InstVerify(p)
    \/ \E p \in Callers : InstDaemonRun(p)
SpecInstance == InitInstance /\ [][NextInstance]_vars

\* any sequence of region-management operations on a region store in which
\* no outlet is listed twice
InitRegionOps == InitRegion
NextRegionOps ==
    \/ OpAddTc
    \/ OpAddRegion
    \/ OpRemoveTc
    \/ OpDeleteRegion
    \/ OpSaveRegion
SpecRegionOps == InitRegionOps /\ [][NextRegionOps]_vars

\* any sequence of certificate operations of the token_manager menu and of
\* DataManager, from empty files
InitCerts ==
    /\ RegionIdle /\ AggIdle /\ NoReports /\ DiskIdle /\ DlIdle
    /\ RunAt("idle") /\ SchedIdle /\ TokIdle /\ MailIdle /\ InstIdle
    /\ ExtIdle
NextCerts ==
    \/ \E name \in CertNames \cup {NoName}, t \in Thumbs \cup {NoThumb} :
          TmAddCertificate(name, t)
    \/ \E i \in 1..MaxEntries, name \in CertNames : TmEditName(i, name)
    \/ \E i \in 1..MaxEntries, t \in Thumbs : TmEditThumbprint(i, t)
    \/ \E i \in 1..MaxEntries : TmDeleteCertificate(i)
    \/ \E name \in CertNames, t \in Thumbs : DmAddCertificate(name, t)
    \/ \E old \in CertNames, new \in CertNames, t \in Thumbs \cup {NoThumb} :
          DmUpdateCertificate(old, new, t)
    \/ \E name \in CertNames : DmDeleteCertificate(name)
SpecCerts == InitCerts /\ [][NextCerts]_vars

\* process_reports_for_token called again and again on one reports
\* directory, which os.listdir lists in one order
InitIngest ==
    /\ \E d \in IngestDirs :
          /\ reports_dir = [c \in Certs |-> IF c = IngestCert THEN d ELSE {}]
          /\ listing \in ListdirOrders(d)
    /\ pending_file = [c \in Certs |-> NoPendingFile]
    /\ clock = 0
    /\ violation_json \in StaleReports
    /\ ing_runs = 0
    /\ ing_first = <<>>
    /\ certificates = <<>>
    /\ thumbprints = <<>>
    /\ win_time = <<0, 0>>
    /\ win_now = 0
    /\ win_ret = "none"
    /\ trig_day = 0
    /\ RegionIdle /\ AggIdle /\ DlIdle /\ RunAt("idle") /\ SchedIdle
    /\ TokIdle /\ MailIdle /\ InstIdle
NextIngest == Ingest
SpecIngest == InitIngest /\ [][NextIngest]_vars

\* is_time_to_run checked at the seconds around a configured time
InitWindow ==
    /\ win_time \in TaskTimes
    /\ win_now = 0
    /\ win_ret = "none"
    /\ ing_runs = 0
    /\ ing_first = <<>>
    /\ listing = <<>>
    /\ certificates = <<>>
    /\ thumbprints = <<>>
    /\ trig_day = 0
    /\ RegionIdle /\ AggIdle /\ NoReports /\ DiskIdle /\ DlIdle
    /\ RunAt("idle") /\ SchedIdle /\ TokIdle /\ MailIdle /\ InstIdle
NextWindow == \E offset \in CheckOffsets : WindowCheck(offset)
SpecWindow == InitWindow /\ [][NextWindow]_vars

\* Scheduler.run_daily_report day after day: run_daily_process, then the
\* update of the last run time
InitDailyTrigger == InitDaily
NextDailyTrigger ==
    \/ TrigDailyReport
    \/ \E outcomes \in [Certificates -> TokenOutcomes] : RunRefresh(outcomes)
    \/ RunLoadTokens
    \/ \E created \in SUBSET Products : RunCreate(created)
    \/ \E c \in Certs : DlStart(c)
    \/ \E in \in DailyInputs : MonitorStep(in.resp, in.answer)
    \/ MonitorGiveUp
    \/ DlFinish
    \/ RunDownloaded
    \/ RunIngest
    \/ \E config_ok \in BOOLEAN : RunAggregate(config_ok)
    \/ RunEmail
    \/ RunMarker
    \/ TrigUpdateLastRun
SpecDailyTrigger == InitDailyTrigger /\ [][NextDailyTrigger]_vars

\* download_tasks_for_token killed inside its loop, and the restart; the
\* files are all written in the same second and with the dates in the name
CrashInputs ==
    {in \in PollerInputs :
        /\ in.answer.tick = 0
        /\ in.answer.status = 200 => in.answer.date_info = "start_to_end"}

InitCrash == InitPoll
NextCrash ==
    \/ \E c \in Certs : DlStart(c)
    \/ \E in \in CrashInputs : MonitorStep(in.resp, in.answer)
    \/ MonitorGiveUp
    \/ DlFinish
    \/ DlKill
    \/ DlRestart
SpecCrash == InitCrash /\ [][NextCrash]_vars


----------------------------------------------------------------------------
(* Sums used by the properties *)

RECURSIVE SumOver(_, _)
\* the sum of f[x] over x in S
SumOver(f, S) ==
    IF S = {} THEN 0
    ELSE LET x == CHOOSE y \in S : TRUE IN f[x] + SumOver(f, S \ {x})

\* the certificates with a report that are mapped to the region
CertsOfRegion(region) ==
    {c \in DOMAIN violation_json : CertToRegion(regions_data, c) = region}

\* the sum of all counts of one report
ReportSum(viol) == SumOver([g \in DOMAIN viol |-> viol[g].v], DOMAIN viol)

IntegerCounts(region) ==
    \A c \in CertsOfRegion(region) : \A g \in DOMAIN violation_json[c] :
        violation_json[c][g].kind = "int"

----------------------------------------------------------------------------
\* C2: after any sequence of add_tc_to_region calls on a store that lists no
\* outlet twice, every outlet is in the tc_list of at most one region (and
\* at most once in it).
RegionExclusivity == NoOutletListedTwice(regions_data)

\* an outlet listed in another region was added to a region: the call
\* succeeded and the outlet is now listed in the named region
RegionExclusivityWitness ==
    /\ region_ret = "True"
    /\ region_call.region_id \in RegionIds
    /\ region_call.listed_in # {}
    /\ region_call.region_id \notin region_call.listed_in
    /\ InList(region_call.tc_name, regions_data[region_call.region_id])

\* C4: with integer counts, each region's total is the sum of all counts of
\* all certificates mapped to the region, and it is the sum of the region's
\* per-group subtotals.
AggregationCorrectness ==
    agg_pc = "done" =>
        \A region \in DOMAIN agg_result :
            /\ IntegerCounts(region) =>
                  agg_result[region].total =
                      SumOver([c \in CertsOfRegion(region) |->
                                  ReportSum(violation_json[c])],
                              CertsOfRegion(region))
            /\ agg_result[region].total =
                  SumOver(agg_result[region].violations,
                          DOMAIN agg_result[region].violations)

\* two certificates of one region, each with two groups, were aggregated
AggregationWitness ==
    /\ agg_pc = "done"
    /\ \E region \in DOMAIN agg_result :
          /\ region # UndefinedRegion
          /\ IntegerCounts(region)
          /\ Cardinality(CertsOfRegion(region)) >= 2
          /\ \A c \in CertsOfRegion(region) :
                Cardinality(DOMAIN violation_json[c]) >= 2
          /\ agg_result[region].total >= 3


----------------------------------------------------------------------------
(* The call of download_tasks_for_token seen from its end *)

\* the task read as line i is a line of the rewritten pending file
StillPending(i) ==
    \E j \in DOMAIN pending_file[dl_cert].lines :
        pending_file[dl_cert].lines[j].task_id = tasks[i].task_id

\* monitor_and_download returned True for the task read as line i
Downloaded(i) == fate[i].ret = "True"

\* the remote status of the task read as line i was FAILED and the task is
\* no line of the rewritten pending file
TerminallyFailedRemoved(i) ==
    fate[i].obs.status = "FAILED" /\ ~StillPending(i)

\* SUCCESS (with a file, a 403 or a 204) or FAILED was met for line i
RuleFired(i) == fate[i].obs.status \in {"SUCCESS", "FAILED"}

\* how many lines of the rewritten pending file carry the id of line i
PendingCopies(i) ==
    Cardinality({j \in DOMAIN pending_file[dl_cert].lines :
                    pending_file[dl_cert].lines[j].task_id = tasks[i].task_id})

PollerDone == dl_pc = "done" /\ dl_cert \in Certs

\* C1: at the end of one download_tasks_for_token call every task read from
\* the pending file is in exactly one of downloaded, terminally failed and
\* removed, still pending; it is at most once in the rewritten file, the
\* rewritten file holds only tasks that were read, and a task is absent from
\* it only if SUCCESS (file, 403, 204) or FAILED was met for it.
PendingTaskConservation ==
    PollerDone =>
        /\ \A i \in DOMAIN tasks :
              /\ Cardinality({k \in {"downloaded", "failed", "pending"} :
                    \/ k = "downloaded" /\ Downloaded(i)
                    \/ k = "failed" /\ TerminallyFailedRemoved(i)
                    \/ k = "pending" /\ StillPending(i)}) = 1
              /\ PendingCopies(i) <= 1
              /\ ~StillPending(i) => RuleFired(i)
        /\ \A j \in DOMAIN pending_file[dl_cert].lines :
              \E i \in DOMAIN tasks : tasks[i] = pending_file[dl_cert].lines[j]

\* a call that read two tasks ended with one downloaded and the other, whose
\* status query kept failing or raised, still pending
PendingTaskConservationWitness ==
    /\ PollerDone
    /\ \E i, k \in DOMAIN tasks :
          /\ i # k
          /\ Downloaded(i) /\ ~StillPending(i)
          /\ fate[k].obs.status \in {"gave_up", "malformed"}
          /\ StillPending(k)

\* C5: a task whose remote status is FAILED is absent from the pending file
\* after the call.
FailedTaskRemoved ==
    PollerDone =>
        \A i \in DOMAIN tasks :
            fate[i].obs.status = "FAILED" => ~StillPending(i)

\* C6: when the status of a pending task is SUCCESS and the file request
\* returns a body, a file named violations_group<group_code>_* is in the
\* certificate's reports directory, and the task is absent from the pending
\* file after the call.
SuccessfulDownload ==
    dl_cert \in Certs =>
        \A i \in DOMAIN fate :
            (fate[i].obs.status = "SUCCESS" /\ fate[i].obs.http = 200) =>
                /\ \E f \in reports_dir[dl_cert] :
                      /\ f.name = fate[i].file
                      /\ MatchesGroup(f.name, tasks[i].group_code)
                /\ PollerDone => ~StillPending(i)

\* a call ended in which a file was downloaded for a task
SuccessfulDownloadWitness ==
    /\ PollerDone
    /\ \E i \in DOMAIN fate :
          /\ fate[i].obs.status = "SUCCESS" /\ fate[i].obs.http = 200
          /\ ~StillPending(i)
          /\ reports_dir[dl_cert] # {}

\* C7: when the file request of a pending task answers 403 or 204,
\* monitor_and_download returns True (nothing is raised, the task does not
\* count as failed), no file is written for the task, and the task is absent
\* from the pending file after the call.
BenignSkip ==
    dl_cert \in Certs =>
        /\ \A i \in DOMAIN fate :
              fate[i].obs.http \in {403, 204} =>
                  /\ fate[i].ret = "True"
                  /\ fate[i].file = NoFileName
                  /\ PollerDone => ~StillPending(i)
        \* every file of the directory was written for a task that answered 200
        /\ \A f \in reports_dir[dl_cert] :
              \E i \in DOMAIN fate :
                  fate[i].obs.http = 200 /\ fate[i].file = f.name

\* a call ended in which one task answered 403 and another 204
BenignSkipWitness ==
    /\ PollerDone
    /\ \E i, k \in DOMAIN fate :
          /\ fate[i].obs.http = 403 /\ fate[k].obs.http = 204
          /\ ~StillPending(i) /\ ~StillPending(k)
          /\ reports_dir[dl_cert] = {}

----------------------------------------------------------------------------
(* run_daily_process *)

\* C8: every task that was pending when a run began has been polled when the
\* run has processed all its certificates.
RetryAcrossRuns == run_pc = "send" => carried \subseteq polled

\* the rank of a stage in the sequence tokens, creation, download,
\* ingestion, aggregation, email
StageRank(stage) ==
    IF stage = "tokens" THEN 1
    ELSE IF stage = "create" THEN 2
    ELSE IF stage = "download" THEN 3
    ELSE IF stage = "ingest" THEN 4
    ELSE IF stage = "aggregate" THEN 5
    ELSE 6

\* C9 as stated: no stage begins after a later stage of the sequence has begun
StrictStageOrder ==
    [][\A x \in begun' \ begun : \A y \in begun :
          StageRank(y[1]) <= StageRank(x[1])]_vars

\* C9: within one run the tokens are acquired before anything else; for each
\* certificate, creation is finished before its download begins and its
\* download before its ingestion; aggregation begins after the ingestion of
\* every certificate and email after aggregation; at most one stage is
\* begun and unfinished.
StageOrderPerCertificate ==
    /\ \A x \in begun :
          /\ x[1] # "tokens" => <<"tokens", 0>> \in finished
          /\ x[1] = "download" => <<"create", x[2]>> \in finished
          /\ x[1] = "ingest" => <<"download", x[2]>> \in finished
          /\ x[1] = "aggregate" =>
                \A i \in DOMAIN run_tokens :
                    <<"ingest", run_tokens[i]>> \in finished
          /\ x[1] = "email" => <<"aggregate", 0>> \in finished
    /\ Cardinality(begun \ finished) <= 1

\* a run over two certificates reached the writing of its marker after
\* sending the emails
StageOrderWitness ==
    /\ run_pc = "marker"
    /\ Len(run_tokens) >= 2
    /\ <<"email", 0>> \in finished
    /\ \A i \in DOMAIN run_tokens : <<"download", run_tokens[i]>> \in finished

----------------------------------------------------------------------------
(* Scheduler *)

\* C3: each trigger fires its stage at most once per calendar day.
AtMostOncePerDay == \A trigger \in Triggers : fired[trigger] <= 1

\* C10: every stage the scheduler fires returns, and the loop of
\* run_continuously goes on.
NoFailureEscapes ==
    /\ last_stage.ends \in {"none", "return"}
    /\ sched_pc # "dead"

----------------------------------------------------------------------------
(* The buckets of the aggregate *)

\* the regions of the aggregate whose certificates list holds the certificate
CertBuckets(c) ==
    {region \in DOMAIN agg_result :
        InList(c, agg_result[region].certificates)}

\* C16: every certificate with a report is in the certificates list of
\* exactly one bucket of the aggregate, once: a region whose tc_list holds
\* it, or "Undefined" when no tc_list holds it; a certificate without a
\* report is in no bucket.
NoCertificateDropped ==
    agg_pc = "done" =>
        /\ \A c \in DOMAIN violation_json :
              /\ Cardinality(CertBuckets(c)) = 1
              /\ \A region \in CertBuckets(c) :
                    /\ Occurrences(agg_result[region].certificates, c) = 1
                    /\ IF ListedIn(regions_data, c) = {}
                       THEN region = UndefinedRegion
                       ELSE region \in ListedIn(regions_data, c)
        /\ \A region \in DOMAIN agg_result :
              \A i \in DOMAIN agg_result[region].certificates :
                  agg_result[region].certificates[i] \in DOMAIN violation_json

\* two certificates that no tc_list holds were aggregated, next to a region
\* that holds none of them
NoCertificateDroppedWitness ==
    /\ agg_pc = "done"
    /\ Cardinality(DOMAIN violation_json) >= 2
    /\ \A c \in DOMAIN violation_json : ListedIn(regions_data, c) = {}
    /\ UndefinedRegion \in DOMAIN agg_result
    /\ Len(agg_result[UndefinedRegion].certificates) >= 2

\* C17: the aggregate of a region holds, for every certificate of the
\* region, the violation map of the certificate's report unmodified.
CertReportsRetained ==
    agg_pc = "done" =>
        \A region \in DOMAIN agg_result :
            /\ "cert_reports" \in DOMAIN agg_result[region]
            /\ \A c \in DOMAIN violation_json :
                  InList(c, agg_result[region].certificates) =>
                      /\ c \in DOMAIN agg_result[region].cert_reports
                      /\ agg_result[region].cert_reports[c] = violation_json[c]

\* get_tokens has ended: it returned, or the process left it with SystemExit
TokenRunEnded == tok_pc \in {"returned", "exited"}

\* C11: when get_tokens has ended, a challenge was requested for every
\* certificate whatever failed for the others, and every token acquired
\* during the run is in true_api_tokens.json
TokenFailureIsolation ==
    TokenRunEnded =>
        /\ attempted = Certificates
        /\ \A k \in DOMAIN tok_tokens :
              /\ k \in DOMAIN token_file.tokens
              /\ token_file.tokens[k] = tok_tokens[k]

\* C12: a get_tokens run that acquired no token returns an empty dict to its
\* caller and leaves true_api_tokens.json, generated_at included, as it was
ZeroTokensUntouched ==
    (TokenRunEnded /\ DOMAIN tok_tokens = {}) =>
        /\ tok_ret = Returned("return", <<>>)
        /\ token_file = tok_before

\* C13: no challenge uuid is sent in the token-exchange request of more than
\* one outlet-identity pair
SingleUseChallenges ==
    \A e1 \in exchanges : \A e2 \in exchanges :
        (e1.uuid = e2.uuid /\ e1.key.tc # 0 /\ e2.key.tc # 0) =>
            e1.key = e2.key

\* C14: after a get_tokens run that acquired a token, the store maps every
\* acquired key to its new token and every other stored key to its old
\* token, and generated_at is later than before
TokenMerge ==
    (TokenRunEnded /\ DOMAIN tok_tokens # {}) =>
        /\ token_file.tokens = DictUpdate(tok_before.tokens, tok_tokens)
        /\ token_file.generated_at > tok_before.generated_at

\* create_tasks_for_token has just returned to run_daily_process
TasksCreated == run_pc = "download" /\ dl_pc = "idle"

\* C15 as stated: after create_tasks_for_token returns, the pending-task file
\* of the certificate holds exactly the pairs created by the invocation,
\* however many creations succeeded
PendingSetAlwaysReplaced ==
    TasksCreated => pending_file[run_tokens[run_idx]].lines = run_tasks

\* C15: when create_tasks_for_token returns with at least one created task,
\* the pending-task file of the certificate holds exactly the pairs created by
\* the invocation, whatever it held before; when no task was created the file
\* is as it was before the call
PendingSetReplaced ==
    [][(run_pc = "create" /\ run_pc' = "download") =>
          LET c == run_tokens[run_idx]
          IN IF run_tasks' # <<>>
             THEN pending_file'[c] = PendingFile(run_tasks')
             ELSE pending_file'[c] = pending_file[c]]_vars

\* on the second day the file of a certificate still held a task of the
\* first day, and the call replaced it by the tasks it created
PendingSetReplacedWitness ==
    /\ TasksCreated
    /\ today = 2
    /\ run_tasks # <<>>
    /\ \E g \in Products :
          TaskIdOf(1, run_tokens[run_idx], g) \in carried
    /\ pending_file[run_tokens[run_idx]].lines = run_tasks

\* send_regional_reports has returned after its loop over the regions
DispatchPassed == mail_pc \in {"returned", "marked"} /\ mail_order # <<>>

\* C18: no region is attempted twice, and when send_regional_reports has
\* returned after its loop every region of the aggregate was attempted exactly
\* once, whatever failed, and the returned value is the conjunction of the
\* outcomes of the regions
EmailFailureIsolation ==
    /\ mail_pc = "loop" =>
          \A region \in DOMAIN mail_attempts : mail_attempts[region] <= 1
    /\ DispatchPassed =>
          /\ DOMAIN mail_attempts = DOMAIN agg_result
          /\ \A region \in DOMAIN agg_result : mail_attempts[region] = 1
          /\ mail_ret = "True" <=>
                \A region \in DOMAIN agg_result : mail_sent[region]

\* the message of a region failed and the message of a later region was sent
EmailFailureIsolationWitness ==
    /\ DispatchPassed
    /\ mail_ret = "False"
    /\ \E i \in DOMAIN mail_order : \E j \in DOMAIN mail_order :
          /\ i < j
          /\ ~mail_sent[mail_order[i]]
          /\ mail_sent[mail_order[j]]

\* send_regional_reports has returned and its caller has not acted yet
MailReturned == mail_pc = "returned"

\* C19 as stated: every pass of send_regional_reports, also one without
\* reports or without email configuration, ends with last_email_run.json
\* written
MarkerAfterEveryPass == MailReturned => last_email_run = today

\* C19: a pass of send_regional_reports that went through its loop over the
\* regions ends with last_email_run.json written, whether regions failed or
\* not; a pass that returned before the loop has not written it, and the
\* email trigger of the scheduler writes it after the call
EmailRunMarker ==
    /\ (MailReturned /\ mail_order # <<>>) => last_email_run = today
    /\ (MailReturned /\ mail_order = <<>>) =>
          /\ mail_ret = "False"
          /\ last_email_run = 0
    /\ mail_pc = "marked" => last_email_run = today

\* a pass in which a region failed has written the marker
EmailRunMarkerWitness ==
    /\ MailReturned
    /\ mail_order # <<>>
    /\ mail_ret = "False"
    /\ last_email_run = today

\* C20: at most one process runs the scheduler loop, whatever calls of
\* ensure_scheduler_running and start_daemon were made and however they
\* interleaved, and a call that found an instance returned its process id
\* and started nothing
SingleSchedulerInstance ==
    /\ Cardinality(procs) <= 1
    /\ \A p \in Callers :
          (inst_pc[p] = "done" /\ inst_ret[p] # NoPid) =>
              inst_ret[p] \in {q.pid : q \in procs}
----------------------------------------------------------------------------
(* Properties of the repeated ingestion *)

\* process_reports_for_token has been called more than once on the directory
IngestedAgain == ing_runs >= 2

\* C21: a second call of process_reports_for_token on the same report files
\* on the same day leaves violations_<date>.json as the first call left it:
\* the file is written anew from the files of the directory, or, when no
\* file gives a count, not written by either call; nothing of an earlier
\* write is added to
IdempotentIngestion ==
    IngestedAgain => violation_json = ing_first

\* two calls on a directory that holds two files of one group with different
\* counts, and the report holds the count of the file listed last
IdempotentIngestionWitness ==
    /\ IngestedAgain
    /\ IngestCert \in DOMAIN violation_json
    /\ \E i \in DOMAIN listing : \E j \in DOMAIN listing :
          /\ i < j
          /\ listing[i].name.group = listing[j].name.group
          /\ listing[i].rows # listing[j].rows
          /\ violation_json[IngestCert][listing[j].name.group].v =
                listing[j].rows
          /\ \A k \in DOMAIN listing :
                listing[k].name.group = listing[j].name.group => k <= j

----------------------------------------------------------------------------
(* Properties of the region-management operations *)

\* C22: after any sequence of add_region, add_tc_to_region,
\* remove_tc_from_region, delete_region and DataManager.save_region calls an
\* outlet is in the tc_list of at most one region
RegionExclusivityAtAnyTime ==
    \A tc \in Outlets : Cardinality(ListedIn(regions_data, tc)) <= 1

----------------------------------------------------------------------------
(* Properties of the certificate store *)

\* no two entries of certificates.json share a thumbprint
ThumbprintsUnique ==
    \A i \in DOMAIN certificates : \A j \in DOMAIN certificates :
        certificates[i].thumbprint = certificates[j].thumbprint => i = j

\* the thumbprint of every entry of certificates.json is a line of
\* cert_thumbprints.txt
NamedThumbprintsListed ==
    \A i \in DOMAIN certificates :
        InList(certificates[i].thumbprint, thumbprints)

\* C23: after any sequence of certificate add, rename, thumbprint-update and
\* delete operations no two entries of certificates.json share a thumbprint
\* and the thumbprint of every named certificate is in cert_thumbprints.txt
CertificateStoreConsistency ==
    ThumbprintsUnique /\ NamedThumbprintsListed

----------------------------------------------------------------------------
(* Further properties of the poller *)

\* monitor_and_download left its while loop by "Maximum attempts reached" for
\* the task read as line i
GaveUp(i) == fate[i].obs.status = "gave_up"

\* C24: monitor_and_download makes at most max_attempts status queries for
\* one task; a task for which no query met SUCCESS or FAILED ends with the
\* return value False, and after the call it is a line of the pending file
BoundedPolling ==
    /\ attempt <= max_attempts
    /\ \A i \in DOMAIN fate :
          GaveUp(i) =>
              /\ fate[i].ret = "False"
              /\ PollerDone => StillPending(i)

\* the call has returned, a task was given up after max_attempts queries
\* and is kept, and another task was downloaded and removed
BoundedPollingWitness ==
    /\ PollerDone
    /\ \E i \in DOMAIN fate : GaveUp(i) /\ StillPending(i)
    /\ \E i \in DOMAIN fate : Downloaded(i) /\ ~StillPending(i)

\* the tasks read that were neither downloaded or skipped nor met with the
\* status FAILED, in the order read
Unresolved ==
    SelectSeq(tasks, LAMBDA t :
        \E i \in DOMAIN tasks :
            /\ tasks[i] = t
            /\ ~Downloaded(i)
            /\ fate[i].obs.status # "FAILED")

\* C25: after download_tasks_for_token has gone through its loop the
\* pending file exists exactly when a task is left unresolved, and its lines
\* are then the unresolved tasks, each once, in the order read
DrainedQueue ==
    PollerDone =>
        /\ pending_file[dl_cert].exists <=> Unresolved # <<>>
        /\ pending_file[dl_cert].exists =>
              pending_file[dl_cert].lines = Unresolved

----------------------------------------------------------------------------
(* Properties of the trigger window *)

\* is_time_to_run has been called
WindowChecked == win_ret # "none"

\* the seconds from the configured time to the check
SinceTaskTime == win_now - At(win_time[1], win_time[2], 0)

\* C26: is_time_to_run(T) returns True for a check made in the 120 seconds
\* that begin at the configured time T, also when T is in the last two
\* minutes of an hour or of the day, and False for a check before T or more
\* than 120 seconds after it
TriggerWindow ==
    WindowChecked =>
        (win_ret = "True" <=> (0 <= SinceTaskTime /\ SinceTaskTime <= 120))

----------------------------------------------------------------------------
(* Properties of the daily-report trigger *)

\* the run fired by the daily-report trigger has ended with True
DailyRunSucceeded == run_pc = "idle" /\ run_ret = "True"

\* the run fired by the daily-report trigger has ended with False
DailyRunFailed == run_pc = "idle" /\ run_ret = "False"

\* C27: the run fired by the daily-report trigger goes through token
\* acquisition, task creation, download, ingestion and aggregation and then
\* writes the run marker, and it dispatches no email: email is dispatched
\* only by the email trigger
DailyTriggerStages ==
    /\ <<"email", 0>> \notin begun
    /\ DailyRunSucceeded => last_run = today

\* C28: last_run.json is overwritten after a successful daily run, and left
\* as it was when run_daily_process returned False
MarkerOnlyOnSuccess ==
    /\ DailyRunSucceeded => last_run = today
    /\ DailyRunFailed => last_run # today

----------------------------------------------------------------------------
(* Properties of a kill inside download_tasks_for_token *)

\* the process was killed inside the loop of download_tasks_for_token
Killed == dl_pc \in {"killed", "restarted"}

\* C29: when the process is killed while download_tasks_for_token polls or
\* downloads, the pending file is after the kill and after the restart what
\* the call read at its start: every task that was pending is still a line
\* of it
CrashSafePendingQueue ==
    Killed =>
        /\ pending_file[dl_cert] = PendingFile(tasks)
        /\ \A i \in DOMAIN tasks : StillPending(i)

\* the process was killed after one task was downloaded and while the next
\* was polled, and was started again
CrashSafePendingQueueWitness ==
    /\ dl_pc = "restarted"
    /\ Len(tasks) = MaxTasks
    /\ task_idx = 2
    /\ attempt > 0
    /\ Downloaded(1)

----------------------------------------------------------------------------
(* Properties of the report of a day *)

\* the result files of the certificate that this day's run downloaded
DownloadedToday(c) == {f \in reports_dir[c] : f.name.timestamp = today}

\* C30: every count of a certificate's violations_<date>.json of the day
\* comes from a result file downloaded by the run of that day; files kept in
\* the reports directory from the runs of earlier days give no count
ReportCoversOwnDay ==
    \A c \in DOMAIN violation_json : \A g \in DOMAIN violation_json[c] :
        \E f \in DownloadedToday(c) :
            /\ f.name.group = g
            /\ f.rows = violation_json[c][g].v

====
